---- MODULE Spec2Model ----
(***************************************************************************)
(* A model of the Dropout Kodi add-on's client core                        *)
(* (plugin.video.dropout/resources/lib): session establishment and the     *)
(* credential cache (api.py, config.py), the two pagination dialects, the  *)
(* media normaliser, the play-state merge and the continue-watching view.  *)
(*                                                                         *)
(* Python None is the string "None" for scalar fields (token, user id) and *)
(* the empty tuple for optional records (Credentials, PlayState): an       *)
(* Optional[record] is <<>> or <<record>>.                                 *)
(***************************************************************************)
EXTENDS Integers, Sequences, FiniteSets, TLC

VARIABLES
    store,      \* Addon.CONFIG: the JSON documents of the persistent store
    settings,   \* the add-on settings "username" and "password"
    now,        \* datetime.datetime.now(), in minutes
    api,        \* the API instance of the running plugin process
    net,        \* the website requests the running process has issued, in order
    debug,      \* Addon.debug(): the "debug_mode" setting
    backend,    \* what the two JSON APIs answer
    parser,     \* one call of the media normaliser: its input and its result
    merge,      \* two play states merged in both orders
    pager,      \* one call of the full-pagination collector
    listing,    \* one page of a listing operation: the answer and the result
    cw,         \* one call of get_continue_watching
    request,    \* one call of the generic API request: the response, the result
    playback,   \* one playback resolution: the player configuration, the result
    session,    \* listing operations on one API instance, one after the other
    player      \* the MonitorPlayer of the service: its loop and its callbacks

authVars == <<store, settings, now, api, net>>
extraVars == <<request, playback, session, player>>
nonAuthVars == <<debug, backend, parser, merge, pager, listing, cw, extraVars>>

vars ==
    <<store, settings, now, api, net, debug, backend, parser, merge, pager,
      listing, cw, request, playback, session, player>>

None == "None"
Nothing == <<>>
Some(x) == <<x>>
Get(o) == o[1]

(***************************************************************************)
(* Bounds of the model.                                                    *)
(***************************************************************************)
MaxTime == 6

MaxId == 2         \* video and collection ids are 1..MaxId
MaxSeen == 2       \* play-state timestamps are 0..MaxSeen
MaxPageLen == 3    \* items on one page of a collection
MaxDepth == 2      \* nested movie resolutions the interpreter's stack allows
MaxPage == 2       \* page numbers and next links are 1..MaxPage
MaxCount == 3      \* pagination.count is 0..MaxCount
MaxItems == 3      \* the collector is followed up to MaxItems collected items

(***************************************************************************)
(* Program constants.                                                      *)
(***************************************************************************)
CACHE_MINUTES == 5
MAX_SEARCHES == 15
DEFAULT_PER_PAGE == 25

(***************************************************************************)
(* Inputs: the strings a user can type, and what the website can answer.   *)
(***************************************************************************)
Usernames == {<<>>, <<"a">>}
Passwords == {<<>>, <<"b">>}
Tokens == {"t1", "t2"}
UserIds == {"u1"}
CookieNames == {"_session"}

\* res.json() of /customer_settings/subscription_plans
SubPlans == {"null", "no_current_plan", "no_has_expired", "expired", "active"}
\* what TOKEN_FINDER and USER_FINDER find in the home page
TokenInfos == Tokens \cup {None}
UserInfos == UserIds \cup {None}
\* the login form: no form, no input, an empty value, or a token
FormTokens == {"no_form", "no_input", "empty", "csrf"}
\* the csrf-token meta tag of the home page
MetaTokens == {"no_meta", "empty", "csrf"}

STATUS_URL == "GET /customer_settings/subscription_plans"
HOME_URL == "GET /"
LOGIN_FORM_URL == "GET /login"
LOGIN_URL == "POST /login"
LOGOUT_URL == "POST /logout"

NoAPI ==
    [pc |-> "none", credentials |-> <<<<>>, <<>>>>, creds |-> Nothing,
     init_now |-> 0, cookies |-> {}, token |-> None, user_id |-> None,
     logged_in |-> FALSE, has_subscription |-> FALSE, my_list |-> Nothing]

\* no document exists yet
EmptyStore ==
    [credentials |-> Nothing, cookie_jar |-> {}, playstates |-> <<>>,
     searches |-> <<>>]

NoBackend ==
    [collections |-> <<>>, remote |-> <<>>, play_state_ok |-> TRUE,
     static |-> FALSE, fixture |-> Nothing,
     watching |-> Nothing, videos |-> <<>>, watchlist |-> Nothing]
NoParser == [pc |-> "none"]
NoMerge == [pc |-> "none"]
NoPager == [pc |-> "none"]
NoListing == [pc |-> "none"]
NoCW == [pc |-> "none"]
NoRequest == [pc |-> "none"]
NoPlayback == [pc |-> "none"]
NoSession == [pc |-> "none"]
NoPlayer == [pc |-> "none"]

(***************************************************************************)
(* api.py, API.__calculate_hash: the digest of username + password.  The   *)
(* digest is taken as injective on the concatenated string.                *)
(***************************************************************************)
calculate_hash(credentials) == <<"md5", credentials[1] \o credentials[2]>>

\* the cache check without the age test
cache_usable_any_age(creds, credentials, t) ==
    calculate_hash(credentials) = creds.hash

\* the cache check with the window one minute short
cache_usable_short(creds, credentials, t) ==
    /\ calculate_hash(credentials) = creds.hash
    /\ t - creds.when < CACHE_MINUTES - 1

\* api.py line 222: the cached record is reused
cache_usable(creds, credentials, t) ==
    /\ calculate_hash(credentials) = creds.hash
    /\ t - creds.when < CACHE_MINUTES

\* the clearing that leaves the session's cookies in place
clear_auth_data_keep_cookies(a) == [a EXCEPT !.token = None]

\* api.py, API.__clear_auth_data
clear_auth_data(a) == [a EXCEPT !.cookies = {}, !.token = None]

\* api.py, API.__init__ lines 199-212, after __ensure_logged_in returned:
\* the pair <<api, stored credentials>>; the asserts raise
finish_init(a, stored, t) ==
    IF a.creds = Nothing /\ a.logged_in /\ a.has_subscription
    THEN IF a.token = None \/ a.user_id = None
         THEN <<[a EXCEPT !.pc = "init_raised"], stored>>
         ELSE <<[a EXCEPT !.pc = "ready"],
                Some([hash |-> calculate_hash(a.credentials), token |-> a.token,
                      user_id |-> a.user_id, when |-> t])>>
    ELSE <<[a EXCEPT !.pc = "ready"], stored>>

\* api.py, API.__do_login lines 244-247: without credentials no request is made
do_login_start(a, stored, t) ==
    IF a.credentials[1] = <<>> \/ a.credentials[2] = <<>>
    THEN finish_init(a, stored, t)
    ELSE <<[a EXCEPT !.pc = "login_form"], stored>>

\* the expiry flag read with a default of False
has_expired_lenient(sub_plan) ==
    CASE sub_plan = "expired" -> TRUE
      [] OTHER -> FALSE

\* api.py, API.__update_status lines 297-300
has_expired(sub_plan) ==
    CASE sub_plan = "expired" -> TRUE
      [] sub_plan = "active" -> FALSE
      [] OTHER -> TRUE

\* api.py lines 296-306: the flags, and the clearing, that follow the payload
status_flags(a, sub_plan) ==
    [a EXCEPT !.logged_in = (sub_plan # "null"),
              !.has_subscription = (sub_plan # "null" /\ ~has_expired(sub_plan))]

\* api.py, API.__update_status after its request: a holds the cookies the
\* response has set
update_status(a, sub_plan) ==
    IF sub_plan = "null" THEN clear_auth_data(status_flags(a, sub_plan))
    ELSE status_flags(a, sub_plan)

(***************************************************************************)
(* API.__init__ up to the cache check of __ensure_logged_in.               *)
(***************************************************************************)
Construct ==
    /\ api.pc = "none"
    /\ LET creds == store.credentials
           a == [NoAPI EXCEPT !.credentials = settings, !.creds = creds,
                              !.init_now = now, !.cookies = store.cookie_jar]
       IN  IF creds # Nothing /\ cache_usable(Get(creds), settings, now)
           THEN /\ api' = [a EXCEPT !.token = Get(creds).token,
                                    !.user_id = Get(creds).user_id,
                                    !.logged_in = TRUE,
                                    !.has_subscription = TRUE,
                                    !.pc = "ready"]
                /\ UNCHANGED store
           ELSE /\ api' = [a EXCEPT !.pc = "status1"]
                /\ store' = [store EXCEPT !.credentials = Nothing]
    /\ net' = <<>>
    /\ UNCHANGED <<settings, now>>
    /\ UNCHANGED nonAuthVars

(***************************************************************************)
(* API.__update_status, with the __website_request it makes and the        *)
(* control flow of __update_from_website / __ensure_logged_in / __do_login *)
(* that follows without a further request.                                 *)
(***************************************************************************)
UpdateStatus ==
    /\ api.pc \in {"status1", "status2"}
    /\ \E sub_plan \in SubPlans, set_cookie \in SUBSET CookieNames :
        LET jar == api.cookies \cup set_cookie
            a2 == update_status([api EXCEPT !.cookies = jar], sub_plan)
            jar2 == IF sub_plan = "null" THEN {} ELSE jar
            fin == IF api.pc = "status1"
                   THEN do_login_start(a2, store.credentials, now)
                   ELSE finish_init(a2, store.credentials, now)
        IN  IF a2.logged_in
            THEN /\ api' = [a2 EXCEPT !.pc = IF api.pc = "status1"
                                             THEN "token1" ELSE "token2"]
                 /\ store' = [store EXCEPT !.cookie_jar = jar2]
            ELSE /\ api' = fin[1]
                 /\ store' = [store EXCEPT !.cookie_jar = jar2,
                                           !.credentials = fin[2]]
    /\ net' = Append(net, STATUS_URL)
    /\ UNCHANGED <<settings, now>>
    /\ UNCHANGED nonAuthVars

(***************************************************************************)
(* API.__update_token: the home-page scrape.  A False result of the first  *)
(* __update_from_website falls through to __do_login.                      *)
(***************************************************************************)
UpdateToken ==
    /\ api.pc \in {"token1", "token2"}
    /\ \E token_info \in TokenInfos, user_info \in UserInfos,
          set_cookie \in SUBSET CookieNames :
        LET jar == api.cookies \cup set_cookie
            a1 == [api EXCEPT !.cookies = jar, !.token = token_info,
                              !.user_id = user_info]
            ok == token_info # None /\ user_info # None
            fin == IF ~ok /\ api.pc = "token1"
                   THEN do_login_start(a1, store.credentials, now)
                   ELSE finish_init(a1, store.credentials, now)
        IN  /\ api' = fin[1]
            /\ store' = [store EXCEPT !.cookie_jar = jar, !.credentials = fin[2]]
    /\ net' = Append(net, HOME_URL)
    /\ UNCHANGED <<settings, now>>
    /\ UNCHANGED nonAuthVars

(***************************************************************************)
(* API.__get_authenticity_token(meta=False), called by __do_login.         *)
(***************************************************************************)
GetAuthenticityToken ==
    /\ api.pc = "login_form"
    /\ \E form \in FormTokens, set_cookie \in SUBSET CookieNames :
        LET jar == api.cookies \cup set_cookie
        IN  /\ api' = [api EXCEPT !.cookies = jar,
                                  !.pc = IF form = "csrf" THEN "login_post"
                                         ELSE "init_raised"]
            /\ store' = [store EXCEPT !.cookie_jar = jar]
    /\ net' = Append(net, LOGIN_FORM_URL)
    /\ UNCHANGED <<settings, now>>
    /\ UNCHANGED nonAuthVars

(***************************************************************************)
(* API.__do_login lines 255-272: the login POST.                           *)
(***************************************************************************)
DoLogin ==
    /\ api.pc = "login_post"
    /\ \E ok \in BOOLEAN, set_cookie \in SUBSET CookieNames :
        LET jar == api.cookies \cup set_cookie
            a1 == [api EXCEPT !.cookies = jar]
            fin == finish_init(a1, store.credentials, now)
        IN  IF ok
            THEN /\ api' = [a1 EXCEPT !.pc = "status2"]
                 /\ store' = [store EXCEPT !.cookie_jar = jar]
            ELSE /\ api' = fin[1]
                 /\ store' = [store EXCEPT !.cookie_jar = jar,
                                           !.credentials = fin[2]]
    /\ net' = Append(net, LOGIN_URL)
    /\ UNCHANGED <<settings, now>>
    /\ UNCHANGED nonAuthVars

(***************************************************************************)
(* API.logout, first request: __get_authenticity_token(meta=True).         *)
(***************************************************************************)
LogoutToken ==
    /\ api.pc = "ready"
    /\ \E meta \in MetaTokens, set_cookie \in SUBSET CookieNames :
        LET jar == api.cookies \cup set_cookie
        IN  /\ api' = [api EXCEPT !.cookies = jar,
                                  !.pc = IF meta = "csrf" THEN "logout_post"
                                         ELSE "logout_raised"]
            /\ store' = [store EXCEPT !.cookie_jar = jar]
    /\ net' = Append(net, HOME_URL)
    /\ UNCHANGED <<settings, now>>
    /\ UNCHANGED nonAuthVars

(***************************************************************************)
(* API.logout, the POST and what follows it.                               *)
(***************************************************************************)
Logout ==
    /\ api.pc = "logout_post"
    /\ api' = [clear_auth_data([api EXCEPT !.logged_in = FALSE,
                                           !.has_subscription = FALSE])
                  EXCEPT !.pc = "logout_returned"]
    /\ store' = [store EXCEPT !.cookie_jar = {}]
    /\ net' = Append(net, LOGOUT_URL)
    /\ UNCHANGED <<settings, now>>
    /\ UNCHANGED nonAuthVars

(***************************************************************************)
(* plugin.py, logout.on_ok after api.logout(): Addon.reset_credentials().  *)
(***************************************************************************)
ResetCredentials ==
    /\ api.pc = "logout_returned"
    /\ settings' = <<<<>>, <<>>>>
    /\ api' = [api EXCEPT !.pc = "done"]
    /\ UNCHANGED <<store, now, net>>
    /\ UNCHANGED nonAuthVars

\* The plugin process ends; the next invocation builds a new API.
Exit ==
    /\ api.pc \in {"ready", "init_raised", "logout_raised", "done"}
    /\ api' = NoAPI
    /\ net' = <<>>
    /\ UNCHANGED <<store, settings, now>>
    /\ UNCHANGED nonAuthVars

\* The user edits the add-on settings between two invocations.
EditSettings ==
    /\ api.pc = "none"
    /\ \E u \in Usernames, p \in Passwords :
        /\ <<u, p>> # settings
        /\ settings' = <<u, p>>
    /\ UNCHANGED <<store, now, api, net>>
    /\ UNCHANGED nonAuthVars

\* A minute passes.
Tick ==
    /\ now < MaxTime
    /\ now' = now + 1
    /\ UNCHANGED <<store, settings, api, net>>
    /\ UNCHANGED nonAuthVars

Init ==
    /\ store = EmptyStore
    /\ settings \in Usernames \X Passwords
    /\ now = 0
    /\ api = NoAPI
    /\ net = <<>>
    /\ debug = FALSE
    /\ backend = NoBackend
    /\ parser = NoParser
    /\ merge = NoMerge
    /\ pager = NoPager
    /\ listing = NoListing
    /\ cw = NoCW
    /\ request = NoRequest
    /\ session = NoSession
    /\ player = NoPlayer
    /\ playback = NoPlayback

Next ==
    \/ Construct
    \/ UpdateStatus
    \/ UpdateToken
    \/ GetAuthenticityToken
    \/ DoLogin
    \/ LogoutToken
    \/ Logout
    \/ ResetCredentials
    \/ Exit
    \/ EditSettings
    \/ Tick

Spec == Init /\ [][Next]_vars

(***************************************************************************)
(* The play-state merge and the persisted play states (api.py, config.py). *)
(***************************************************************************)
\* api.py, API.__parse_play_state: a remote play-state dict as a PlayState
parse_play_state(ps) ==
    [completed |-> ps.completed, duration_s |-> ps.duration,
     timecode |-> ps.timecode, last_seen |-> ps.timestamp, from_us |-> FALSE]

\* playstate.json is a JSON object: its keys in file order, each with a dict
DocKeys(doc) == {doc[i].key : i \in 1..Len(doc)}
DocGet(doc, k) == doc[CHOOSE i \in 1..Len(doc) : doc[i].key = k].value

\* config.py, Config.get_playstate: the record stored under str(video_id)
get_playstate(playstates, video_id) ==
    IF ToString(video_id) \notin DocKeys(playstates)
    THEN Nothing
    ELSE LET data == DocGet(playstates, ToString(video_id))
         IN  Some([completed |-> data.completed, duration_s |-> data.duration_s,
                   timecode |-> data.timecode, last_seen |-> data.last_seen,
                   from_us |-> TRUE])

\* the merge that always takes the parsed value
if_more_recent_always(current, parsed) == parsed

\* the merge with ties going to the parsed state
if_more_recent_ties(current, parsed) ==
    IF current = Nothing THEN parsed
    ELSE IF parsed.last_seen >= Get(current).last_seen THEN parsed
    ELSE Get(current)

\* api.py, API.__if_more_recent
if_more_recent(current, parsed) ==
    IF current = Nothing THEN parsed
    ELSE IF parsed.last_seen > Get(current).last_seen THEN parsed
    ELSE Get(current)

(***************************************************************************)
(* The media normaliser (api.py, __parse_medium and what it calls).        *)
(*                                                                         *)
(* A raw item is the JSON object after the "entity" unwrapping; wrapped    *)
(* says whether it came inside an "entity" wrapper.  fields says whether   *)
(* the keys its parser subscripts are there ("missing": one is absent, a   *)
(* KeyError) and whether its dates fit the parser's format ("bad_date":    *)
(* strptime raises ValueError).  play_state is item._embedded.play_state.  *)
(* A call either returns a value or raises.                                *)
(***************************************************************************)
Ret(v) == [ok |-> TRUE, value |-> v, error |-> "None"]
Raise(e) == [ok |-> FALSE, value |-> <<>>, error |-> e]

RESERVED_CATEGORIES ==
    {"featured", "continue-watching", "my-list", "new-releases", "trending",
     "all-series"}

Medium(kind, entity_id, duration_s, play_state) ==
    [kind |-> kind, entity_id |-> entity_id, duration_s |-> duration_s,
     play_state |-> play_state, is_in_list |-> FALSE]

\* isinstance(i, Video): Movie is a subclass of ReleasedVideo
IsVideo(m) == m.kind \in {"UnreleasedVideo", "ReleasedVideo", "Movie"}
IsReleasedVideo(m) == m.kind \in {"ReleasedVideo", "Movie"}

\* api.py, API.__api_request: the decoded JSON, None, or ValueError under debug
api_request(answer, dbg) ==
    IF answer = Nothing
    THEN IF dbg THEN Raise("ValueError") ELSE Ret(Nothing)
    ELSE Ret(answer)

\* api.py, API.__parse_video
parse_video(item, playstates) ==
    IF item.fields = "missing" THEN Raise("KeyError")
    ELSE IF item.fields = "bad_date" THEN Raise("ValueError")
    ELSE IF ~item.has_metadata
    THEN Ret(Medium("UnreleasedVideo", item.id, item.duration, Nothing))
    ELSE Ret(Medium("ReleasedVideo", item.id, item.duration,
                    get_playstate(playstates, item.id)))

\* api.py, API.__parse_season and API.__parse_series
parse_container(item, kind) ==
    IF item.fields = "missing" THEN Raise("KeyError")
    ELSE IF item.fields = "bad_date" THEN Raise("ValueError")
    ELSE Ret(Medium(kind, item.id, 0, Nothing))

\* the collection parser without the reserved-slug test
parse_collection_any_slug(item) ==
    IF item.fields = "missing" THEN Raise("KeyError")
    ELSE Ret(Medium("Collection", item.id, 0, Nothing))

\* api.py, API.__parse_collection (extended=False: no date is parsed)
parse_collection(item) ==
    IF item.slug \in RESERVED_CATEGORIES THEN Raise("ValueError")
    ELSE IF item.fields = "missing" THEN Raise("KeyError")
    ELSE Ret(Medium("Collection", item.id, 0, Nothing))

\* the index of the item __parse_movie's loop keeps: the first Video of the page
first_video(items) ==
    IF \E i \in 1..Len(items) : IsVideo(items[i])
    THEN CHOOSE i \in 1..Len(items) :
             /\ IsVideo(items[i])
             /\ \A j \in 1..(i - 1) : ~IsVideo(items[j])
    ELSE 0

\* api.py lines 793-806: the batched play-state query merged into the videos;
\* lookup maps an entity id to the last index that holds it
merge_play_states(out, videos, ctx) ==
    LET InVideos(i) == \E n \in 1..Len(videos) : videos[n] = i
        InLookup(i) ==
            /\ InVideos(i)
            /\ \A j \in (i + 1)..Len(out) :
                   InVideos(j) => out[j].entity_id # out[i].entity_id
        Entry(i) == IF out[i].entity_id \in DOMAIN ctx.remote
                    THEN ctx.remote[out[i].entity_id] ELSE Nothing
    IN  [i \in 1..Len(out) |->
            IF InLookup(i) /\ Entry(i) # Nothing
            THEN [out[i] EXCEPT !.play_state =
                     Some(if_more_recent(@, parse_play_state(Get(Entry(i)))))]
            ELSE out[i]]

RECURSIVE parse_medium(_, _, _, _)
RECURSIVE parse_loop(_, _, _, _, _)
RECURSIVE parse_media(_, _, _, _, _)
RECURSIVE parse_com_page(_, _, _, _)
RECURSIVE get_from_collection(_, _, _, _)
RECURSIVE parse_movie(_, _, _)

\* api.py lines 1013-1049: the Movie made of the video the loop kept
movie_of_video(item, items, v) ==
    IF v = 0 THEN Raise("ValueError")
    ELSE IF ~IsReleasedVideo(items[v]) THEN Raise("ValueError")
    ELSE IF item.fields = "missing" THEN Raise("KeyError")
    ELSE Ret([items[v] EXCEPT !.kind = "Movie"])

\* api.py lines 1006-1012: the loop over page 1 of the movie's collection
movie_of_page(item, page) ==
    IF ~page.ok THEN page
    ELSE movie_of_video(item, page.value.items, first_video(page.value.items))

\* api.py, API.__parse_movie; depth is what is left of the interpreter's
\* recursion limit
parse_movie(item, ctx, depth) ==
    IF depth = 0 THEN Raise("RecursionError")
    ELSE movie_of_page(item, get_from_collection(1, item.id, ctx, depth - 1))

\* api.py lines 760-764: is_in_list of a parsed medium
set_is_in_list(m, ctx, is_my_list) ==
    IF is_my_list THEN [m EXCEPT !.is_in_list = TRUE]
    ELSE IF ctx.my_list # Nothing
    THEN [m EXCEPT !.is_in_list = (m.entity_id \in Get(ctx.my_list))]
    ELSE m

\* api.py lines 760-765: <<media, need_play_state>> of a parsed medium r
medium_done(r, need, ctx, is_my_list) ==
    IF r.ok THEN Ret(<<set_is_in_list(r.value, ctx, is_my_list), need>>) ELSE r

\* api.py lines 722-733: the "video" branch on the parsed video r
medium_video(item, r, ctx, is_my_list) ==
    IF ~r.ok THEN r
    ELSE IF item.play_state # Nothing /\ IsReleasedVideo(r.value)
    THEN medium_done(Ret([r.value EXCEPT !.play_state =
                            Some(if_more_recent(@,
                                parse_play_state(Get(item.play_state))))]),
                     FALSE, ctx, is_my_list)
    ELSE medium_done(r, IsReleasedVideo(r.value), ctx, is_my_list)

\* api.py, API.__parse_medium: <<media, need_play_state>>
parse_medium(item, ctx, is_my_list, depth) ==
    CASE item.type = "video" ->
            medium_video(item, parse_video(item, ctx.playstates), ctx, is_my_list)
      [] item.type = "movie" ->
            medium_done(parse_movie(item, ctx, depth), TRUE, ctx, is_my_list)
      [] item.type = "season" ->
            medium_done(parse_container(item, "Season"), FALSE, ctx, is_my_list)
      [] item.type = "series" ->
            medium_done(parse_container(item, "Series"), FALSE, ctx, is_my_list)
      [] item.type = None ->
            medium_done(parse_collection(item), FALSE, ctx, is_my_list)
      [] OTHER -> Raise("ValueError")

\* api.py lines 776-791: one iteration of the loop of __parse_media, after
\* the iterations prev, on the outcome r of __parse_medium; a ValueError skips
\* the item, any other exception leaves the loop
loop_step(prev, r) ==
    IF ~prev.ok THEN prev
    ELSE IF r.ok
    THEN [prev EXCEPT !.out = Append(@, r.value[1]),
                      !.videos = IF r.value[2]
                                 THEN Append(@, Len(prev.out) + 1)
                                 ELSE @]
    ELSE IF r.error = "ValueError" THEN prev
    ELSE [prev EXCEPT !.ok = FALSE, !.error = r.error]

\* api.py lines 775-791: the loop of __parse_media over the first k items
parse_loop(items, k, ctx, is_my_list, depth) ==
    IF k = 0 THEN [ok |-> TRUE, out |-> <<>>, videos |-> <<>>, error |-> "None"]
    ELSE loop_step(parse_loop(items, k - 1, ctx, is_my_list, depth),
                   parse_medium(items[k], ctx, is_my_list, depth))

\* api.py lines 792-808: the play states of the videos the loop collected
media_of_loop(loop, ctx, fast) ==
    IF ~loop.ok THEN Raise(loop.error)
    ELSE IF Len(loop.videos) > 0 /\ ~fast
    THEN IF ~ctx.play_state_ok
         THEN IF ctx.debug THEN Raise("ValueError") ELSE Ret(loop.out)
         ELSE Ret(merge_play_states(loop.out, loop.videos, ctx))
    ELSE Ret(loop.out)

\* api.py, API.__parse_media
parse_media(items, ctx, fast, is_my_list, depth) ==
    media_of_loop(parse_loop(items, Len(items), ctx, is_my_list, depth),
                  ctx, fast)

\* api.py line 684: the next-page test of __parse_com_page
has_next_com(pagination) ==
    pagination.count >= pagination.page * pagination.per_page

\* api.py lines 681-690: the PaginatedMedia of the parsed items
com_page_of(pagination, items) ==
    IF ~items.ok THEN items
    ELSE Ret([items |-> items.value, page |-> pagination.page,
              next_page |-> IF has_next_com(pagination)
                            THEN Some(pagination.page + 1)
                            ELSE Nothing])

\* api.py, API.__parse_com_page (items key "items")
parse_com_page(res, current_page, ctx, depth) ==
    IF res = Nothing
    THEN Ret([items |-> <<>>, page |-> current_page, next_page |-> Nothing])
    ELSE com_page_of(Get(res).pagination,
                     parse_media(Get(res).items, ctx, FALSE, FALSE, depth))

\* api.py lines 698-706: the PaginatedMedia of the parsed items
tv_page_of(data, current_page, items) ==
    IF ~items.ok THEN items
    ELSE Ret([items |-> items.value, page |-> current_page,
              next_page |-> IF data.next # Nothing
                            THEN Some(current_page + 1)
                            ELSE Nothing])

\* api.py, API.__parse_tv_page
parse_tv_page(res, current_page, ctx, is_my_list, depth) ==
    IF res = Nothing
    THEN Ret([items |-> <<>>, page |-> current_page, next_page |-> Nothing])
    ELSE tv_page_of(Get(res), current_page,
                    parse_media(Get(res).items, ctx, FALSE, is_my_list, depth))

\* api.py, API.__get_from_collection; the watchlist id set is built before
\* (__ensure_has_my_list returns at once)
get_from_collection(page, collection, ctx, depth) ==
    LET res == api_request(IF collection \in DOMAIN ctx.collections
                           THEN ctx.collections[collection] ELSE Nothing,
                           ctx.debug)
    IN  IF ~res.ok THEN res
        ELSE parse_com_page(res.value, page, ctx, depth)

\* what the normaliser reads besides its argument
Context ==
    [playstates |-> store.playstates, my_list |-> api.my_list,
     collections |-> backend.collections, remote |-> backend.remote,
     play_state_ok |-> backend.play_state_ok, debug |-> debug]

(***************************************************************************)
(* One call of __parse_medium on one raw item, for every item, local       *)
(* play-state document, watchlist id set and backing collection page.      *)
(***************************************************************************)
Ids == 1..MaxId
Durations == {300, 900, 1200}
Fields == {"ok", "missing", "bad_date"}
Slugs == RESERVED_CATEGORIES \cup {"game-changer"}

Raw(wrapped, type, id, has_metadata, slug, fields, duration, play_state) ==
    [wrapped |-> wrapped, type |-> type, id |-> id,
     has_metadata |-> has_metadata, slug |-> slug, fields |-> fields,
     duration |-> duration, play_state |-> play_state]

\* play-state dicts of the remote API
RemoteStates ==
    [completed : BOOLEAN, duration : {60}, timecode : {30},
     timestamp : 0..MaxSeen]

\* play-state dicts of playstate.json, as MonitorPlayer writes them
LocalStates ==
    [completed : BOOLEAN, duration_s : {10}, timecode : {0},
     last_seen : 0..MaxSeen]

RawVideos ==
    {Raw(w, "video", id, m, "episode", f, 300, ps) :
        w \in BOOLEAN, id \in Ids, m \in BOOLEAN, f \in Fields,
        ps \in {Nothing} \cup {Some(r) : r \in RemoteStates}}
RawMovies ==
    {Raw(w, "movie", id, FALSE, "film", f, 0, Nothing) :
        w \in BOOLEAN, id \in Ids, f \in {"ok", "missing"}}
RawContainers ==
    {Raw(FALSE, t, id, FALSE, "show", f, 0, Nothing) :
        t \in {"season", "series"}, id \in Ids, f \in Fields}
RawCollections ==
    {Raw(FALSE, None, id, FALSE, slug, f, 0, Nothing) :
        id \in Ids, slug \in Slugs, f \in {"ok", "missing"}}
RawUnknown ==
    {Raw(FALSE, t, 1, FALSE, "x", "ok", 0, Nothing) :
        t \in {"product", "live_event", "collection"}}

\* what page 1 of a movie's backing collection can hold at position i
PageItemsAt(i) ==
    {Raw(FALSE, "video", i, TRUE, "film", "ok", d, Nothing) : d \in Durations}
    \cup {Raw(FALSE, "video", i, FALSE, "trailer", "ok", 300, Nothing),
          Raw(FALSE, "video", i, TRUE, "film", "bad_date", 300, Nothing),
          Raw(FALSE, None, i, FALSE, "extras", "ok", 0, Nothing)}

RECURSIVE PagesOfLen(_)
PagesOfLen(n) ==
    IF n = 0 THEN {<<>>}
    ELSE {Append(p, x) : p \in PagesOfLen(n - 1), x \in PageItemsAt(n)}

Pages == UNION {PagesOfLen(n) : n \in 0..MaxPageLen}

\* the JSON of one page of /collections/<id>/items
ComPage(items, count, page) ==
    [items |-> items, next |-> Nothing,
     pagination |-> [count |-> count, page |-> page,
                     per_page |-> DEFAULT_PER_PAGE]]

LocalDocs ==
    {<<>>} \cup {<<[key |-> "1", value |-> d]>> : d \in LocalStates}

ReadyAPI(my_list) ==
    [NoAPI EXCEPT !.pc = "ready", !.token = "t1", !.user_id = "u1",
                  !.logged_in = TRUE, !.has_subscription = TRUE,
                  !.my_list = my_list]

InitParse ==
    /\ settings = <<<<"a">>, <<"b">>>>
    /\ now = 0
    /\ net = <<>>
    /\ merge = NoMerge
    /\ pager = NoPager
    /\ listing = NoListing
    /\ cw = NoCW
    /\ request = NoRequest
    /\ session = NoSession
    /\ player = NoPlayer
    /\ playback = NoPlayback
    /\ debug \in BOOLEAN
    /\ \/ /\ parser \in [pc : {"start"}, is_my_list : BOOLEAN, out : {Nothing},
                         item : RawVideos \cup RawContainers \cup RawCollections
                                \cup RawUnknown]
          /\ store \in {[EmptyStore EXCEPT !.playstates = d] : d \in LocalDocs}
          /\ api \in {ReadyAPI(l) : l \in {Nothing, Some({}), Some({1})}}
          /\ backend = NoBackend
       \/ /\ parser \in [pc : {"start"}, is_my_list : {FALSE}, out : {Nothing},
                         item : RawMovies]
          /\ store \in {[EmptyStore EXCEPT !.playstates = d] :
                           d \in {<<>>, <<[key |-> "1",
                                            value |-> [completed |-> FALSE,
                                                       duration_s |-> 10,
                                                       timecode |-> 0,
                                                       last_seen |-> 1]]>>}}
          /\ api \in {ReadyAPI(l) : l \in {Some({}), Some({1})}}
          /\ backend \in
                {[NoBackend EXCEPT !.collections =
                     (parser.item.id :> IF failed THEN Nothing
                                        ELSE Some(ComPage(p, Len(p), 1)))] :
                    p \in Pages, failed \in BOOLEAN}

\* API.__parse_medium applied to parser.item
ParseOne ==
    /\ parser.pc = "start"
    /\ parser' = [parser EXCEPT
                     !.pc = "done",
                     !.out = parse_medium(parser.item, Context,
                                          parser.is_my_list, MaxDepth)]
    /\ UNCHANGED <<authVars, debug, backend, merge, pager, listing, cw, extraVars>>

NextParse == ParseOne

SpecParse == InitParse /\ [][NextParse]_vars

(***************************************************************************)
(* A movie whose backing collection holds movies: each collection's page 1 *)
(* holds videos and items of type movie, of its own id or of another.      *)
(***************************************************************************)
NestedItems ==
    {Raw(FALSE, "movie", id, FALSE, "film", "ok", 0, Nothing) : id \in Ids}
    \cup {Raw(FALSE, "video", id, TRUE, "film", "ok", 300, Nothing) :
             id \in Ids}

NestedPages ==
    {<<>>} \cup {<<x>> : x \in NestedItems}
    \cup {<<x, y>> : x \in NestedItems, y \in NestedItems}

InitNested ==
    /\ settings = <<<<"a">>, <<"b">>>>
    /\ now = 0
    /\ net = <<>>
    /\ merge = NoMerge
    /\ pager = NoPager
    /\ listing = NoListing
    /\ cw = NoCW
    /\ request = NoRequest
    /\ session = NoSession
    /\ player = NoPlayer
    /\ playback = NoPlayback
    /\ debug = FALSE
    /\ store = EmptyStore
    /\ api = ReadyAPI(Some({}))
    /\ parser \in [pc : {"start"}, is_my_list : {FALSE}, out : {Nothing},
                    item : {Raw(FALSE, "movie", id, FALSE, "film", "ok", 0,
                                Nothing) : id \in Ids}]
    /\ backend \in
          {[NoBackend EXCEPT !.collections =
               [i \in Ids |-> Some(ComPage(p[i], Len(p[i]), 1))]] :
              p \in [Ids -> NestedPages]}

SpecNested == InitNested /\ [][NextParse]_vars

(***************************************************************************)
(* Two play states merged into an empty slot in both orders, and one       *)
(* merged with itself.                                                     *)
(***************************************************************************)
PlayStates ==
    [completed : BOOLEAN, duration_s : {10, 60}, timecode : {0},
     last_seen : 0..MaxSeen, from_us : BOOLEAN]

InitMerge ==
    /\ store = EmptyStore
    /\ settings = <<<<"a">>, <<"b">>>>
    /\ now = 0
    /\ api = NoAPI
    /\ net = <<>>
    /\ debug = FALSE
    /\ backend = NoBackend
    /\ parser = NoParser
    /\ pager = NoPager
    /\ listing = NoListing
    /\ cw = NoCW
    /\ request = NoRequest
    /\ session = NoSession
    /\ player = NoPlayer
    /\ playback = NoPlayback
    /\ merge \in [pc : {"first"}, a : PlayStates, b : PlayStates,
                  ab : {Nothing}, ba : {Nothing}, aa : {Nothing}]

\* play_state = __if_more_recent(play_state, parsed), for the first of the two
MergeFirst ==
    /\ merge.pc = "first"
    /\ merge' = [merge EXCEPT !.pc = "second",
                              !.ab = Some(if_more_recent(@, merge.a)),
                              !.ba = Some(if_more_recent(@, merge.b)),
                              !.aa = Some(if_more_recent(@, merge.a))]
    /\ UNCHANGED <<authVars, debug, backend, parser, pager, listing, cw, extraVars>>

\* play_state = __if_more_recent(play_state, parsed), for the second
MergeSecond ==
    /\ merge.pc = "second"
    /\ merge' = [merge EXCEPT !.pc = "done",
                              !.ab = Some(if_more_recent(@, merge.b)),
                              !.ba = Some(if_more_recent(@, merge.a)),
                              !.aa = Some(if_more_recent(@, merge.a))]
    /\ UNCHANGED <<authVars, debug, backend, parser, pager, listing, cw, extraVars>>

NextMerge == MergeFirst \/ MergeSecond

SpecMerge == InitMerge /\ [][NextMerge]_vars

(***************************************************************************)
(* The full-pagination collector, API.__api_request_pages.  A URL is the   *)
(* page it designates.  An answer is Nothing (a non-success status) or the *)
(* JSON: items (_embedded.items or items), next (_links.next.href) and     *)
(* pagination.  A static backend answers every request with its fixture.   *)
(***************************************************************************)
Batches == {<<>>, <<1>>, <<2>>}

TvAnswers ==
    {Nothing} \cup
    {Some([items |-> b, next |-> n,
           pagination |-> [count |-> 0, page |-> 1, per_page |-> 1]]) :
        b \in Batches, n \in {Nothing} \cup {Some(u) : u \in 1..MaxPage}}

ComAnswers ==
    {Nothing} \cup
    {Some([items |-> b, next |-> Nothing,
           pagination |-> [count |-> c, page |-> g, per_page |-> pp]]) :
        b \in Batches, c \in 0..MaxCount, g \in 1..MaxPage, pp \in {1, 2}}

Answers(use_tv) == IF use_tv THEN TvAnswers ELSE ComAnswers

\* the loop body, were the items collected so far given up on a failure
pages_process_drop(p, dbg) ==
    IF p.res = Nothing
    THEN IF dbg THEN [p EXCEPT !.pc = "raised"]
         ELSE [p EXCEPT !.pc = "done", !.items = <<>>]
    ELSE LET data == Get(p.res)
             q == [p EXCEPT !.items = @ \o data.items]
         IN  IF p.use_tv
             THEN IF data.next = Nothing
                  THEN [q EXCEPT !.pc = "done"]
                  ELSE [q EXCEPT !.pc = "get", !.next_url = Get(data.next)]
             ELSE IF data.pagination.count
                       <= data.pagination.page * data.pagination.per_page
                  THEN [q EXCEPT !.pc = "done"]
                  ELSE [q EXCEPT !.pc = "get",
                                 !.next_url = data.pagination.page + 1]

\* api.py lines 646-673: the loop body after the response p.res has arrived
pages_process(p, dbg) ==
    IF p.res = Nothing
    THEN IF dbg THEN [p EXCEPT !.pc = "raised"] ELSE [p EXCEPT !.pc = "done"]
    ELSE LET data == Get(p.res)
             q == [p EXCEPT !.items = @ \o data.items]
         IN  IF p.use_tv
             THEN IF data.next = Nothing
                  THEN [q EXCEPT !.pc = "done"]
                  ELSE [q EXCEPT !.pc = "get", !.next_url = Get(data.next)]
             ELSE IF data.pagination.count
                       <= data.pagination.page * data.pagination.per_page
                  THEN [q EXCEPT !.pc = "done"]
                  ELSE [q EXCEPT !.pc = "get",
                                 !.next_url = data.pagination.page + 1]

InitPages ==
    /\ store = EmptyStore
    /\ settings = <<<<"a">>, <<"b">>>>
    /\ now = 0
    /\ api = ReadyAPI(Nothing)
    /\ net = <<>>
    /\ debug \in BOOLEAN
    /\ parser = NoParser
    /\ merge = NoMerge
    /\ listing = NoListing
    /\ cw = NoCW
    /\ request = NoRequest
    /\ session = NoSession
    /\ player = NoPlayer
    /\ playback = NoPlayback
    /\ pager \in [pc : {"get"}, use_tv : BOOLEAN, next_url : {1},
                  items : {<<>>}, res : {Nothing}]
    /\ backend \in
          {NoBackend} \cup
          {[NoBackend EXCEPT !.static = TRUE, !.fixture = f] :
              f \in Answers(pager.use_tv)}

\* api.py lines 639-645: requests.get(next_url); beyond MaxItems collected
\* items the collector is not followed further
PageGet ==
    /\ pager.pc = "get"
    /\ \E res \in Answers(pager.use_tv) :
        /\ backend.static => res = backend.fixture
        /\ pager' =
              IF res # Nothing /\ Len(pager.items) + Len(Get(res).items) > MaxItems
              THEN [pager EXCEPT !.pc = "cut"]
              ELSE [pager EXCEPT !.pc = "parse", !.res = res]
    /\ UNCHANGED <<authVars, debug, backend, parser, merge, listing, cw, extraVars>>

\* api.py lines 646-675: the rest of the loop body, or the return
PageParse ==
    /\ pager.pc = "parse"
    /\ pager' = pages_process(pager, debug)
    /\ UNCHANGED <<authVars, debug, backend, parser, merge, listing, cw, extraVars>>

NextPages == PageGet \/ PageParse

SpecPages == InitPages /\ [][NextPages]_vars

\* the interpreter runs the loop on: a step that can be taken is taken
SpecPagesFair == SpecPages /\ WF_vars(NextPages)

(***************************************************************************)
(* One page of a listing operation: __api_request, then __parse_com_page   *)
(* (get_new_releases, search, ...) or __parse_tv_page (get_featured,       *)
(* get_browse).                                                            *)
(***************************************************************************)
ListedItems ==
    {<<>>,
     <<Raw(FALSE, "video", 1, TRUE, "episode", "ok", 300, Nothing)>>,
     <<Raw(FALSE, "video", 1, TRUE, "episode", "ok", 300, Nothing),
       Raw(FALSE, None, 2, FALSE, "featured", "ok", 0, Nothing)>>}

ListingAnswers(use_tv) ==
    {Nothing} \cup
    IF use_tv
    THEN {Some([items |-> b, next |-> n,
                pagination |-> [count |-> 0, page |-> 1, per_page |-> 1]]) :
             b \in ListedItems, n \in {Nothing} \cup {Some(u) : u \in 1..MaxPage}}
    ELSE {Some([items |-> b, next |-> Nothing,
                pagination |-> [count |-> c, page |-> g, per_page |-> pp]]) :
             b \in ListedItems, c \in 0..MaxCount, g \in 1..MaxPage,
             pp \in {1, 2}}

InitListing ==
    /\ store = EmptyStore
    /\ settings = <<<<"a">>, <<"b">>>>
    /\ now = 0
    /\ api = ReadyAPI(Some({1}))
    /\ net = <<>>
    /\ debug \in BOOLEAN
    /\ backend = NoBackend
    /\ parser = NoParser
    /\ merge = NoMerge
    /\ pager = NoPager
    /\ cw = NoCW
    /\ request = NoRequest
    /\ session = NoSession
    /\ player = NoPlayer
    /\ playback = NoPlayback
    /\ listing \in [pc : {"start"}, use_tv : BOOLEAN, page : 1..MaxPage,
                    answer : {Nothing}, out : {Nothing}]

\* api.py, API.__api_request of the listing's URL
ListRequest ==
    /\ listing.pc = "start"
    /\ \E answer \in ListingAnswers(listing.use_tv) :
        listing' = [listing EXCEPT
                       !.answer = answer,
                       !.pc = IF answer = Nothing /\ debug THEN "raised"
                              ELSE "parse"]
    /\ UNCHANGED <<authVars, debug, backend, parser, merge, pager, cw, extraVars>>

\* api.py, API.__parse_com_page or API.__parse_tv_page of the answer
ListParse ==
    /\ listing.pc = "parse"
    /\ listing' = [listing EXCEPT
                      !.pc = "done",
                      !.out = IF listing.use_tv
                              THEN parse_tv_page(listing.answer, listing.page,
                                                 Context, FALSE, MaxDepth)
                              ELSE parse_com_page(listing.answer, listing.page,
                                                  Context, MaxDepth)]
    /\ UNCHANGED <<authVars, debug, backend, parser, merge, pager, cw, extraVars>>

NextListing == ListRequest \/ ListParse

SpecListing == InitListing /\ [][NextListing]_vars

(***************************************************************************)
(* get_continue_watching (api.py lines 403-454).  backend.watching is the  *)
(* answer of /users/<id>/watching, backend.videos[id] the answer of        *)
(* /videos/<id> (the video with that id, or a failure), backend.watchlist  *)
(* the single page of the watchlist.                                       *)
(***************************************************************************)
\* int(k) of config.py line 51
int(k) ==
    IF \E i \in Ids : ToString(i) = k
    THEN Ret(CHOOSE i \in Ids : ToString(i) = k)
    ELSE Raise("ValueError")

\* config.py, Config.get_playstates: the dict as its entries in file order
get_playstates(playstates) ==
    IF \E n \in 1..Len(playstates) : ~int(playstates[n].key).ok
    THEN Raise("ValueError")
    ELSE Ret([n \in 1..Len(playstates) |->
                 [id |-> int(playstates[n].key).value,
                  state |-> [completed |-> playstates[n].value.completed,
                             duration_s |-> playstates[n].value.duration_s,
                             timecode |-> playstates[n].value.timecode,
                             last_seen |-> playstates[n].value.last_seen,
                             from_us |-> TRUE]]])

\* api.py, API.__get_video_by_id
get_video_by_id(id, ctx) ==
    LET video_res == api_request(IF id \in DOMAIN ctx.videos
                                 THEN ctx.videos[id] ELSE Nothing, ctx.debug)
    IN  IF ~video_res.ok THEN video_res
        ELSE IF video_res.value = Nothing THEN Raise("ValueError")
        ELSE Ret(Get(video_res.value))

\* api.py lines 826-832: the play-state query of __parse_playable, merged
\* into the parsed media r
playable_play_state(r, ctx) ==
    IF ~r.ok THEN r
    ELSE IF ~ctx.play_state_ok
    THEN IF ctx.debug THEN Raise("ValueError") ELSE r
    ELSE IF r.value.entity_id \in DOMAIN ctx.remote
            /\ ctx.remote[r.value.entity_id] # Nothing
    THEN Ret([r.value EXCEPT !.play_state =
                Some(if_more_recent(@, parse_play_state(
                         Get(ctx.remote[r.value.entity_id]))))])
    ELSE r

\* api.py lines 811-820: the "video" branch of __parse_playable on the parsed
\* video r
playable_video(item, r, ctx) ==
    IF ~r.ok THEN r
    ELSE IF ~IsReleasedVideo(r.value) THEN Raise("ValueError")
    ELSE IF item.play_state # Nothing
    THEN Ret([r.value EXCEPT !.play_state =
                Some(if_more_recent(@, parse_play_state(Get(item.play_state))))])
    ELSE playable_play_state(r, ctx)

\* api.py, API.__parse_playable
parse_playable(item, ctx, depth) ==
    CASE item.type = "video" ->
            playable_video(item, parse_video(item, ctx.playstates), ctx)
      [] item.type = "movie" ->
            playable_play_state(parse_movie(item, ctx, depth), ctx)
      [] OTHER -> Raise("ValueError")

\* api.py line 398: the ids of the parsed watchlist
my_list_of(final) ==
    IF ~final.ok THEN final
    ELSE Ret(Some({final.value[i].entity_id : i \in 1..Len(final.value)}))

\* api.py, API.__ensure_has_my_list; the watchlist is one page without a
\* next link, so the collector returns after its first response
ensure_has_my_list(a, ctx, depth) ==
    IF a.my_list # Nothing THEN Ret(a.my_list)
    ELSE LET p == pages_process([pc |-> "parse", use_tv |-> TRUE, next_url |-> 1,
                                 items |-> <<>>, res |-> ctx.watchlist],
                                ctx.debug)
         IN  IF p.pc = "raised" THEN Raise("ValueError")
             ELSE my_list_of(parse_media(p.items, ctx, TRUE, TRUE, depth))

\* the remote page kept whole
cw_filter_keep_all(items) == items

\* api.py lines 417-425: what get_continue_watching keeps of the remote page
cw_filter(items) ==
    LET keep(i) == \/ ~IsReleasedVideo(i)
                   \/ i.play_state = Nothing
                   \/ ~Get(i.play_state).completed
                   \/ ~Get(i.play_state).from_us
    IN  SelectSeq(items, keep)

\* the ids to inject, were the completed records the ones kept
cw_pending_completed(all_play_states, items) ==
    LET keep(e) ==
            /\ ~\E i \in 1..Len(items) :
                   IsVideo(items[i]) /\ items[i].entity_id = e.id
            /\ e.state.completed
        kept == SelectSeq(all_play_states, keep)
    IN  [n \in 1..Len(kept) |-> kept[n].id]

\* the ids to inject, were the videos of the remote page not taken out
cw_pending_with_remote(all_play_states, items) ==
    LET keep(e) == ~e.state.completed
        kept == SelectSeq(all_play_states, keep)
    IN  [n \in 1..Len(kept) |-> kept[n].id]

\* api.py lines 428-435: the ids to inject, in the order of the store
cw_pending(all_play_states, items) ==
    LET keep(e) ==
            /\ ~\E i \in 1..Len(items) :
                   IsVideo(items[i]) /\ items[i].entity_id = e.id
            /\ ~e.state.completed
        kept == SelectSeq(all_play_states, keep)
    IN  [n \in 1..Len(kept) |-> kept[n].id]

\* api.py lines 445-449: the sort key; datetime.min is below every time
cw_key(i) ==
    IF IsReleasedVideo(i) /\ i.play_state # Nothing
    THEN Get(i.play_state).last_seen
    ELSE -1

\* the merged list left in the order it was built
cw_unsorted(items) == items

\* api.py lines 443-451: sorted(..., reverse=True), which is stable
RECURSIVE cw_sorted(_)
cw_sorted(items) ==
    IF items = <<>> THEN <<>>
    ELSE LET front == cw_sorted(SubSeq(items, 1, Len(items) - 1))
             x == items[Len(items)]
             k == Cardinality({j \in 1..Len(front) :
                                  cw_key(front[j]) >= cw_key(x)})
         IN  SubSeq(front, 1, k) \o <<x>> \o SubSeq(front, k + 1, Len(front))

CWContext(my_list) ==
    [playstates |-> store.playstates, my_list |-> my_list,
     collections |-> backend.collections, remote |-> backend.remote,
     play_state_ok |-> backend.play_state_ok, debug |-> debug,
     videos |-> backend.videos, watchlist |-> backend.watchlist]

CWVideo(id, released, ps) ==
    Raw(FALSE, "video", id, released, "episode", "ok", 300, ps)

CWRemoteState ==
    [completed |-> FALSE, duration |-> 60, timecode |-> 30,
     timestamp |-> MaxSeen]

CWRemoteItems ==
    {<<>>,
     <<CWVideo(1, TRUE, Nothing)>>,
     <<CWVideo(1, TRUE, Some(CWRemoteState))>>,
     <<CWVideo(2, TRUE, Nothing), CWVideo(1, TRUE, Nothing)>>,
     <<Raw(FALSE, "series", 1, FALSE, "show", "ok", 0, Nothing)>>,
     <<Raw(FALSE, "video", 1, TRUE, "episode", "bad_date", 300, Nothing)>>,
     <<Raw(FALSE, "movie", 2, FALSE, "film", "ok", 0, Nothing)>>}

CWLocalStates ==
    [completed : BOOLEAN, duration_s : {10}, timecode : {0},
     last_seen : {1, MaxSeen}]

\* playstate.json as MonitorPlayer leaves it: at most two videos, or the one
\* record a playback without a video id leaves under str(None)
CWDocs ==
    {<<>>}
    \cup {<<[key |-> ToString(i), value |-> d]>> : i \in Ids, d \in CWLocalStates}
    \cup {<<[key |-> ToString(ij[1]), value |-> d],
             [key |-> ToString(ij[2]), value |-> e]>> :
             ij \in {x \in Ids \X Ids : x[1] # x[2]},
             d \in CWLocalStates, e \in CWLocalStates}
    \cup {<<[key |-> "None",
             value |-> [completed |-> FALSE, duration_s |-> 10, timecode |-> 0,
                        last_seen |-> 1]]>>}

InitCW ==
    /\ settings = <<<<"a">>, <<"b">>>>
    /\ now = 0
    /\ net = <<>>
    /\ debug \in BOOLEAN
    /\ parser = NoParser
    /\ merge = NoMerge
    /\ pager = NoPager
    /\ listing = NoListing
    /\ store \in {[EmptyStore EXCEPT !.playstates = d] : d \in CWDocs}
    /\ api \in {ReadyAPI(l) : l \in {Nothing, Some({1})}}
    /\ \E watching \in {Nothing} \cup
                          {Some(ComPage(items, Len(items), 1)) :
                              items \in CWRemoteItems},
          videos \in [Ids -> {Nothing, Some("released"), Some("unreleased")}],
          ps \in {"ok", "none", "failed"} :
        backend =
            [NoBackend EXCEPT
                !.watching = watching,
                !.collections =
                    (2 :> Some(ComPage(<<CWVideo(2, TRUE, Nothing)>>, 1, 1))),
                !.videos = [i \in Ids |->
                               IF videos[i] = Nothing THEN Nothing
                               ELSE Some(CWVideo(i, Get(videos[i]) = "released",
                                                 Nothing))],
                !.watchlist =
                    Some([items |-> <<CWVideo(1, TRUE, Nothing)>>,
                          next |-> Nothing,
                          pagination |-> [count |-> 0, page |-> 1,
                                          per_page |-> 1]]),
                !.remote = IF ps = "ok" THEN (1 :> Some(CWRemoteState))
                           ELSE <<>>,
                !.play_state_ok = (ps # "failed")]
    /\ cw \in [pc : {"start"}, page : {1, MaxPage}, remote : {<<>>},
               items : {<<>>}, pending : {<<>>}, fetched : {<<>>},
               next_page : {Nothing}, rpage : {0}, out : {Nothing}]
    /\ request = NoRequest
    /\ session = NoSession
    /\ player = NoPlayer
    /\ playback = NoPlayback

\* api.py lines 426-436: page 1 with the local records all_play_states
cw_local(c, page, items, all_play_states) ==
    IF c.page # 1
    THEN [c EXCEPT !.pc = "returned", !.remote = page.items, !.items = items,
                   !.out = Some([items |-> items, page |-> page.page,
                                 next_page |-> page.next_page])]
    ELSE IF ~all_play_states.ok
    THEN [c EXCEPT !.pc = "raised", !.remote = page.items]
    ELSE [c EXCEPT !.pc = "inject", !.remote = page.items, !.items = items,
                   !.rpage = page.page, !.next_page = page.next_page,
                   !.pending = cw_pending(all_play_states.value, items)]

\* api.py lines 415-427: the parsed remote page, filtered
cw_remote(c, page, playstates) ==
    IF ~page.ok THEN [c EXCEPT !.pc = "raised"]
    ELSE cw_local(c, page.value, cw_filter(page.value.items),
                  IF c.page = 1 THEN get_playstates(playstates) ELSE Ret(<<>>))

\* api.py lines 405-415: the request of /users/<id>/watching and its parse
cw_request(c, res, ctx) ==
    IF ~res.ok THEN [c EXCEPT !.pc = "raised"]
    ELSE cw_remote(c, parse_com_page(res.value, c.page, ctx, MaxDepth),
                   ctx.playstates)

\* api.py lines 404-436 after __ensure_has_my_list gave ml: <<cw, api>>
cw_start(c, a, ml) ==
    IF ~ml.ok THEN <<[c EXCEPT !.pc = "raised"], a>>
    ELSE <<cw_request(c, api_request(backend.watching, debug),
                      CWContext(ml.value)),
           [a EXCEPT !.my_list = ml.value]>>

\* api.py lines 404-436: the watchlist, the remote page, the filter and the
\* local ids to inject
CWStart ==
    /\ cw.pc = "start"
    /\ LET r == cw_start(cw, api,
                         ensure_has_my_list(api, CWContext(Nothing), MaxDepth))
       IN  /\ cw' = r[1]
           /\ api' = r[2]
    /\ UNCHANGED <<store, settings, now, net, debug, backend, parser, merge,
                   pager, listing, extraVars>>

\* api.py line 440: the extra of one id, from the answer video of /videos/<id>
cw_extra(c, id, extra) ==
    IF ~extra.ok
    THEN [c EXCEPT !.pc = "raised", !.fetched = Append(@, id)]
    ELSE [c EXCEPT !.pending = Tail(@), !.fetched = Append(@, id),
                   !.items = Append(@, extra.value)]

\* api.py lines 439-442: one element of extras
cw_inject(c, id, video, ctx) ==
    IF ~video.ok
    THEN [c EXCEPT !.pc = "raised", !.fetched = Append(@, id)]
    ELSE cw_extra(c, id, parse_playable(video.value, ctx, MaxDepth))

\* api.py lines 439-442: one element of extras, a request of /videos/<id>
CWInject ==
    /\ cw.pc = "inject"
    /\ cw.pending # <<>>
    /\ cw' = cw_inject(cw, Head(cw.pending),
                       get_video_by_id(Head(cw.pending), CWContext(api.my_list)),
                       CWContext(api.my_list))
    /\ UNCHANGED <<authVars, debug, backend, parser, merge, pager, listing,
                   extraVars>>

\* api.py lines 443-454: the sort and the return
CWReturn ==
    /\ cw.pc = "inject"
    /\ cw.pending = <<>>
    /\ cw' = [cw EXCEPT !.pc = "returned",
                        !.out = Some([items |-> cw_sorted(cw.items),
                                      page |-> cw.rpage,
                                      next_page |-> cw.next_page])]
    /\ UNCHANGED <<authVars, debug, backend, parser, merge, pager, listing,
                   extraVars>>

NextCW == CWStart \/ CWInject \/ CWReturn

SpecCW == InitCW /\ [][NextCW]_vars

(***************************************************************************)
(* One call of __parse_media on a list of raw items (api.py lines 767-808). *)
(* The play-state service knows none of the videos, so the batched query   *)
(* leaves the parsed items as they are.                                    *)
(***************************************************************************)
BatchItems ==
    {Raw(FALSE, "video", 1, TRUE, "episode", "ok", 300, Nothing),
     Raw(FALSE, "video", 2, TRUE, "episode", "bad_date", 300, Nothing),
     Raw(FALSE, "video", 2, TRUE, "episode", "missing", 300, Nothing),
     Raw(FALSE, "series", 1, FALSE, "show", "ok", 0, Nothing),
     Raw(FALSE, "season", 2, FALSE, "show", "missing", 0, Nothing),
     Raw(FALSE, None, 1, FALSE, "featured", "ok", 0, Nothing),
     Raw(FALSE, None, 2, FALSE, "game-changer", "ok", 0, Nothing),
     Raw(FALSE, "product", 1, FALSE, "x", "ok", 0, Nothing),
     Raw(FALSE, "movie", 2, FALSE, "film", "ok", 0, Nothing)}

BatchLists ==
    {<<>>} \cup {<<x>> : x \in BatchItems}
    \cup {<<x, y>> : x \in BatchItems, y \in BatchItems}

InitBatch ==
    /\ store = EmptyStore
    /\ settings = <<<<"a">>, <<"b">>>>
    /\ now = 0
    /\ api = ReadyAPI(Some({1}))
    /\ net = <<>>
    /\ debug \in BOOLEAN
    /\ backend = [NoBackend EXCEPT !.collections = (2 :> Some(ComPage(<<>>, 0, 1)))]
    /\ merge = NoMerge
    /\ pager = NoPager
    /\ listing = NoListing
    /\ cw = NoCW
    /\ request = NoRequest
    /\ session = NoSession
    /\ player = NoPlayer
    /\ playback = NoPlayback
    /\ parser \in [pc : {"batch"}, items : BatchLists, fast : BOOLEAN,
                   out : {Nothing}]

\* API.__parse_media applied to parser.items
ParseBatch ==
    /\ parser.pc = "batch"
    /\ parser' = [parser EXCEPT
                     !.pc = "batch_done",
                     !.out = parse_media(parser.items, Context, parser.fast,
                                         FALSE, MaxDepth)]
    /\ UNCHANGED <<authVars, debug, backend, merge, pager, listing, cw, extraVars>>

NextBatch == ParseBatch

SpecBatch == InitBatch /\ [][NextBatch]_vars

(***************************************************************************)
(* One call of __api_request (api.py lines 582-621) on one HTTP response:  *)
(* its status code and what its body is as JSON.  A JSON object is the     *)
(* sequence of its members.                                                *)
(***************************************************************************)
Statuses == {200, 201, 204, 400, 401, 403, 404, 500}
Bodies == {"object", "empty_object", "null", "invalid"}

\* requests.Response.ok: raise_for_status() raises from 400 on
response_ok(status) == status < 400

\* requests.Response.json of line 614
response_json(body) ==
    CASE body = "object" -> Ret(Some(<<[key |-> "id", value |-> 1]>>))
      [] body = "empty_object" -> Ret(Some(<<>>))
      [] body = "null" -> Ret(Nothing)
      [] OTHER -> Raise("JSONDecodeError")

\* the request that answers None to a non-success status whatever the debug mode
api_request_http_quiet(res, dbg) ==
    IF ~response_ok(res.status) THEN Ret(Nothing)
    ELSE IF res.status = 204 THEN Ret(Some(<<>>))
    ELSE response_json(res.body)

\* api.py, API.__api_request lines 605-621 on the response res
api_request_http(res, dbg) ==
    IF ~response_ok(res.status) THEN api_request(Nothing, dbg)
    ELSE IF res.status = 204 THEN Ret(Some(<<>>))
    ELSE response_json(res.body)

InitRequest ==
    /\ store = EmptyStore
    /\ settings = <<<<"a">>, <<"b">>>>
    /\ now = 0
    /\ api = ReadyAPI(Nothing)
    /\ net = <<>>
    /\ debug \in BOOLEAN
    /\ backend = NoBackend
    /\ parser = NoParser
    /\ merge = NoMerge
    /\ pager = NoPager
    /\ listing = NoListing
    /\ cw = NoCW
    /\ playback = NoPlayback
    /\ session = NoSession
    /\ player = NoPlayer
    /\ request \in [pc : {"start"}, res : [status : Statuses, body : Bodies],
                    out : {Nothing}]

\* API.__api_request after requests.request returned request.res
ApiRequest ==
    /\ request.pc = "start"
    /\ request' = [request EXCEPT
                      !.pc = "done",
                      !.out = api_request_http(request.res, debug)]
    /\ UNCHANGED <<authVars, debug, backend, parser, merge, pager, listing, cw,
                   playback, session,
                   player>>

NextRequest == ApiRequest

SpecRequest == InitRequest /\ [][NextRequest]_vars

(***************************************************************************)
(* The recent searches (config.py lines 96-116).  store.searches is the    *)
(* list under "searches" of searches.json: dicts {"search", "first"}.      *)
(***************************************************************************)
Terms == {"cats", "dogs"}

\* the add that evicts one entry early
add_search_cap_short(searches, search, t) ==
    LET appended == Append(searches, [search |-> search, first |-> t])
    IN  IF Len(appended) >= MAX_SEARCHES THEN Tail(appended) ELSE appended

\* Python's == of config.py line 99 between the str search and a dict of the
\* list: objects of these two types are never equal
str_eq_dict(search, entry) == FALSE

\* config.py, Config.add_search
add_search(searches, search, t) ==
    LET appended == Append(searches, [search |-> search, first |-> t])
    IN  IF \E n \in 1..Len(searches) : str_eq_dict(search, searches[n])
        THEN searches
        ELSE IF Len(appended) > MAX_SEARCHES THEN Tail(appended)
        ELSE appended

\* config.py, Config.remove_search
remove_search(searches, search) ==
    LET keep(e) == e.search # search
    IN  SelectSeq(searches, keep)

InitSearch ==
    /\ store = EmptyStore
    /\ settings = <<<<"a">>, <<"b">>>>
    /\ now = 0
    /\ api = NoAPI
    /\ net = <<>>
    /\ debug = FALSE
    /\ backend = NoBackend
    /\ parser = NoParser
    /\ merge = NoMerge
    /\ pager = NoPager
    /\ listing = NoListing
    /\ cw = NoCW
    /\ request = NoRequest
    /\ session = NoSession
    /\ player = NoPlayer
    /\ playback = NoPlayback

\* plugin.py line 176: Addon.CONFIG.add_search(search)
AddSearch ==
    /\ \E search \in Terms :
        store' = [store EXCEPT !.searches = add_search(@, search, now)]
    /\ UNCHANGED <<settings, now, api, net>>
    /\ UNCHANGED nonAuthVars

\* plugin.py line 169: Addon.CONFIG.remove_search(search)
RemoveSearch ==
    /\ \E search \in Terms :
        store' = [store EXCEPT !.searches = remove_search(@, search)]
    /\ UNCHANGED <<settings, now, api, net>>
    /\ UNCHANGED nonAuthVars

NextSearch == AddSearch \/ RemoveSearch

SpecSearch == InitSearch /\ [][NextSearch]_vars

(***************************************************************************)
(* Playback resolution, __playable_from_id (api.py lines 1183-1236).  The  *)
(* player configuration is config.request.files: for "dash" and for "hls"  *)
(* absent or a format dict; a format's "cdns" map is the sequence of its   *)
(* members in map order (absent is the empty map), and the url of a CDN    *)
(* entry names its format and its key.  config is the outcome of           *)
(* __config_from_embed, video_res the answer of /videos/<id> when the      *)
(* caller passed one.                                                      *)
(***************************************************************************)
CdnKeys == {"akamai", "fastly"}

Cdn(format, key) == [key |-> key, value |-> [url |-> <<format, key>>]]

CdnMaps(format) ==
    {<<>>}
    \cup {<<Cdn(format, k)>> : k \in CdnKeys}
    \cup {<<Cdn(format, kk[1]), Cdn(format, kk[2])>> :
             kk \in {x \in CdnKeys \X CdnKeys : x[1] # x[2]}}

Formats(format) ==
    [default_cdn : CdnKeys \cup {None, "level3"}, cdns : CdnMaps(format)]

\* the CDN choice that ignores the declared default
get_best_cdn_first(fmt) ==
    IF Len(fmt.cdns) = 0 THEN Raise("ValueError")
    ELSE Ret(fmt.cdns[1].value)

\* api.py, API.__get_best_cdn
get_best_cdn(fmt) ==
    IF Len(fmt.cdns) = 0 THEN Raise("ValueError")
    ELSE IF fmt.default_cdn = None \/ fmt.default_cdn \notin DocKeys(fmt.cdns)
    THEN Ret(DocGet(fmt.cdns, fmt.cdns[1].key))
    ELSE Ret(DocGet(fmt.cdns, fmt.default_cdn))

\* api.py lines 1207-1211 and 1216-1220: the VideoData of the chosen CDN
video_data_of(cdn, subtitles, mime_type) ==
    IF ~cdn.ok THEN cdn
    ELSE Ret([url |-> cdn.value.url, subtitles |-> subtitles,
              mime_type |-> mime_type])

\* the format selection with the dash branch enabled
video_data_dash(formats, subtitles) ==
    IF formats.dash # Nothing
    THEN video_data_of(get_best_cdn(Get(formats.dash)), subtitles,
                       "application/dash+xml")
    ELSE IF formats.hls # Nothing
    THEN video_data_of(get_best_cdn(Get(formats.hls)), subtitles,
                       "application/vnd.apple.mpegurl")
    ELSE Raise("ValueError")

\* api.py lines 1201-1224: the format selection
video_data(formats, subtitles) ==
    IF formats.dash # Nothing /\ FALSE
    THEN video_data_of(get_best_cdn(Get(formats.dash)), subtitles,
                       "application/dash+xml")
    ELSE IF formats.hls # Nothing
    THEN video_data_of(get_best_cdn(Get(formats.hls)), subtitles,
                       "application/vnd.apple.mpegurl")
    ELSE Raise("ValueError")

\* api.py lines 1191-1199: the hrefs of the subtitle tracks, vtt before srt
RECURSIVE subtitles_of(_, _)
subtitles_of(tracks, n) ==
    IF n > Len(tracks) THEN <<>>
    ELSE (IF "vtt" \in tracks[n] THEN <<<<n, "vtt">>>> ELSE <<>>)
         \o (IF "srt" \in tracks[n] THEN <<<<n, "srt">>>> ELSE <<>>)
         \o subtitles_of(tracks, n + 1)

\* api.py lines 1200-1225: the pair returned, playable parsed before the
\* formats are looked at
playable_and_data(playable, data) ==
    IF ~playable.ok THEN playable
    ELSE IF ~data.ok THEN data
    ELSE Ret([playable |-> playable.value, data |-> data.value])

\* api.py lines 1190-1225, on the video_res at hand
playable_from_video(config, video_res, tracks, ctx) ==
    IF ~video_res.ok THEN video_res
    ELSE playable_and_data(parse_playable(video_res.value, ctx, MaxDepth),
                           video_data(config.value, subtitles_of(tracks, 1)))

\* api.py, API.__playable_from_id
playable_from_id(id, config, video_res, tracks, ctx) ==
    IF ~config.ok THEN config
    ELSE playable_from_video(config,
                             IF video_res = Nothing
                             THEN get_video_by_id(id, ctx)
                             ELSE Ret(Get(video_res)),
                             tracks, ctx)

InitPlayback ==
    /\ store = EmptyStore
    /\ settings = <<<<"a">>, <<"b">>>>
    /\ now = 0
    /\ api = ReadyAPI(Some({}))
    /\ net = <<>>
    /\ debug \in BOOLEAN
    /\ backend \in
          {[NoBackend EXCEPT !.videos = (1 :> v)] :
              v \in {Nothing, Some(CWVideo(1, TRUE, Nothing))}}
    /\ parser = NoParser
    /\ merge = NoMerge
    /\ pager = NoPager
    /\ listing = NoListing
    /\ cw = NoCW
    /\ request = NoRequest
    /\ session = NoSession
    /\ player = NoPlayer
    /\ playback \in
          [pc : {"start"}, id : {1},
           config : {Raise("ValueError")}
                    \cup {Ret([dash |-> d, hls |-> h]) :
                             d \in {Nothing,
                                    Some([default_cdn |-> None,
                                          cdns |-> <<Cdn("dash", "akamai")>>])},
                             h \in {Nothing}
                                   \cup {Some(f) : f \in Formats("hls")}},
           video_res : {Nothing, Some(CWVideo(1, TRUE, Nothing)),
                        Some(CWVideo(1, FALSE, Nothing))},
           tracks : {<<>>, <<{"vtt", "srt"}>>},
           out : {Nothing}]

\* API.__playable_from_id
PlayableFromId ==
    /\ playback.pc = "start"
    /\ playback' = [playback EXCEPT
                       !.pc = "done",
                       !.out = playable_from_id(playback.id, playback.config,
                                                playback.video_res,
                                                playback.tracks,
                                                CWContext(api.my_list))]
    /\ UNCHANGED <<authVars, debug, backend, parser, merge, pager, listing, cw,
                   request, session,
                   player>>

NextPlayback == PlayableFromId

SpecPlayback == InitPlayback /\ [][NextPlayback]_vars

(***************************************************************************)
(* Listing operations on one API instance, one after the other (api.py     *)
(* lines 383-581).  Every operation but get_my_list starts with            *)
(* __ensure_has_my_list; the watchlist is one page without a next link,    *)
(* and each request of it succeeds or fails on its own.  A frame of        *)
(* session.stack is one running __ensure_has_my_list: the raw items its    *)
(* __parse_media has still to parse and the entity ids it has parsed.  A   *)
(* movie of the watchlist is parsed by __parse_movie, which calls          *)
(* __get_from_collection, which calls __ensure_has_my_list again.          *)
(* get_continue_watching starts with the same call and is followed step by *)
(* step in SpecCW.                                                         *)
(***************************************************************************)
MaxCalls == 3      \* operations of one session

SessionOps == {"new_releases", "search", "collection_items", "featured", "browse"}

SessionTv(op) == op \in {"featured", "browse"}

SessionWatchlists ==
    {<<>>,
     <<CWVideo(1, TRUE, Nothing)>>,
     <<Raw(FALSE, "series", 1, FALSE, "show", "ok", 0, Nothing),
       Raw(FALSE, None, 2, FALSE, "game-changer", "ok", 0, Nothing)>>,
     <<Raw(FALSE, "movie", 2, FALSE, "film", "ok", 0, Nothing)>>,
     <<CWVideo(1, TRUE, Nothing),
       Raw(FALSE, "movie", 2, FALSE, "film", "ok", 0, Nothing)>>,
     <<Raw(FALSE, "season", 1, FALSE, "season-1", "missing", 0, Nothing),
       Raw(FALSE, "movie", 2, FALSE, "film", "ok", 0, Nothing)>>}

SessionListed ==
    {<<>>,
     <<CWVideo(1, TRUE, Nothing), CWVideo(2, FALSE, Nothing)>>,
     <<Raw(FALSE, "series", 2, FALSE, "show", "ok", 0, Nothing)>>,
     <<Raw(FALSE, "movie", 2, FALSE, "film", "ok", 0, Nothing)>>}

\* what no step of a session changes
sessionRest ==
    <<store, settings, now, net, debug, backend, parser, merge, pager, listing,
      cw, request, playback,
                   player>>

InitSession ==
    /\ store = EmptyStore
    /\ settings = <<<<"a">>, <<"b">>>>
    /\ now = 0
    /\ api = ReadyAPI(Nothing)
    /\ net = <<>>
    /\ debug \in BOOLEAN
    /\ parser = NoParser
    /\ merge = NoMerge
    /\ pager = NoPager
    /\ listing = NoListing
    /\ cw = NoCW
    /\ request = NoRequest
    /\ playback = NoPlayback
    /\ \E w \in SessionWatchlists :
        backend =
            [NoBackend EXCEPT
                !.collections =
                    (2 :> Some(ComPage(<<CWVideo(2, TRUE, Nothing)>>, 1, 1))),
                !.watchlist =
                    Some([items |-> w, next |-> Nothing,
                          pagination |-> [count |-> 0, page |-> 1,
                                          per_page |-> 1]])]
    /\ player = NoPlayer
    /\ session = [pc |-> "idle", op |-> "none", page |-> 0, stack |-> <<>>,
                  paginated |-> 0, calls |-> 0, error |-> "None",
                  out |-> Nothing]

\* the session after an exception has left the running operation
session_raise(s, e) ==
    [s EXCEPT !.pc = "raised", !.stack = <<>>, !.error = e,
              !.calls = @ + 1]

\* api.py lines 388-397: the collector on the one response res of the
\* watchlist, inside the running calls s.stack
ensure_pages(s, p) ==
    IF p.pc = "raised"
    THEN IF s.stack = <<>> THEN session_raise(s, "ValueError")
         ELSE [s EXCEPT !.pc = "scan",
                        !.stack[Len(s.stack)].rest = Tail(@)]
    ELSE [s EXCEPT !.pc = "scan",
                   !.stack = Append(@, [rest |-> p.items, ids |-> {}]),
                   !.paginated = IF p.res = Nothing THEN @ ELSE @ + 1]

\* api.py lines 776-791 under __ensure_has_my_list: the outcome r of
\* __parse_medium on the first item left of the innermost call
scan_item(s, r) ==
    IF r.ok
    THEN [s EXCEPT !.pc = "scan",
                   !.stack[Len(s.stack)].rest = Tail(@),
                   !.stack[Len(s.stack)].ids = @ \cup {r.value[1].entity_id}]
    ELSE IF r.error = "ValueError"
    THEN [s EXCEPT !.pc = "scan", !.stack[Len(s.stack)].rest = Tail(@)]
    ELSE session_raise(s, r.error)

\* a listing operation is called: get_new_releases, search,
\* get_collection_items, get_featured or get_browse
SessionCall ==
    /\ session.pc \in {"idle", "raised"}
    /\ session.calls < MaxCalls
    /\ \E op \in SessionOps, page \in 1..MaxPage :
        session' = [session EXCEPT !.pc = "ensure", !.op = op, !.page = page,
                                   !.error = "None", !.out = Nothing]
    /\ UNCHANGED <<api, sessionRest>>

\* api.py lines 384-397: __ensure_has_my_list, called by the operation or by
\* the __get_from_collection of a movie of the watchlist; the interpreter
\* allows MaxDepth nested calls
SessionEnsure ==
    /\ session.pc = "ensure"
    /\ IF api.my_list # Nothing
       THEN session' = [session EXCEPT !.pc = IF session.stack = <<>>
                                              THEN "request" ELSE "movie"]
       ELSE IF Len(session.stack) = MaxDepth
       THEN session' = session_raise(session, "RecursionError")
       ELSE \E res \in {Nothing, backend.watchlist} :
               session' =
                   ensure_pages(session,
                                pages_process([pc |-> "parse", use_tv |-> TRUE,
                                               next_url |-> 1, items |-> <<>>,
                                               res |-> res], debug))
    /\ UNCHANGED <<api, sessionRest>>

\* api.py line 398: the innermost call stores the ids and returns, to the
\* operation or to the __get_from_collection that called it
scan_return(s) ==
    [s EXCEPT !.stack = SubSeq(@, 1, Len(@) - 1),
              !.pc = IF Len(s.stack) = 1 THEN "request" ELSE "movie"]

\* api.py line 397: one item of __parse_media(res, fast=True, is_my_list=True)
\* in the innermost call, or line 398 when no item is left
SessionScan ==
    /\ session.pc = "scan"
    /\ LET top == session.stack[Len(session.stack)]
       IN  IF top.rest = <<>>
           THEN /\ api' = [api EXCEPT !.my_list = Some(top.ids)]
                /\ session' = scan_return(session)
           ELSE /\ api' = api
                /\ session' =
                      IF Head(top.rest).type = "movie"
                      THEN [session EXCEPT !.pc = "ensure"]
                      ELSE scan_item(session,
                                     parse_medium(Head(top.rest), Context, TRUE,
                                                  MaxDepth))
    /\ UNCHANGED sessionRest

\* api.py lines 473-483 and 1006-1049: the movie of the watchlist, once the
\* __ensure_has_my_list of its __get_from_collection has returned
SessionMovie ==
    /\ session.pc = "movie"
    /\ session' =
          scan_item(session,
                    medium_done(parse_movie(
                                    Head(session.stack[Len(session.stack)].rest),
                                    Context, MaxDepth),
                                TRUE, Context, TRUE))
    /\ UNCHANGED <<api, sessionRest>>

SessionAnswers ==
    {Nothing} \cup {Some(ComPage(items, Len(items), 1)) : items \in SessionListed}

\* the PaginatedMedia page, or the exception, the operation ends with
session_result(s, page) ==
    IF ~page.ok THEN session_raise(s, page.error)
    ELSE [s EXCEPT !.pc = "idle", !.out = Some(page.value), !.calls = @ + 1]

\* the request of the operation and the parse of its answer res
session_request(s, res, ctx) ==
    IF ~res.ok THEN session_raise(s, res.error)
    ELSE session_result(s,
            IF SessionTv(s.op)
            THEN parse_tv_page(res.value, s.page, ctx, FALSE, MaxDepth)
            ELSE parse_com_page(res.value, s.page, ctx, MaxDepth))

\* api.py lines 472-483, 486-496, 531-554: the page of the operation
SessionRequest ==
    /\ session.pc = "request"
    /\ \E answer \in SessionAnswers :
        session' = session_request(session, api_request(answer, debug), Context)
    /\ UNCHANGED <<api, sessionRest>>

\* the session edit that also drops the cached watchlist id set
x_from_list_invalidate(a, s, method, res) ==
    IF ~res.ok THEN <<a, session_raise([s EXCEPT !.op = method], res.error)>>
    ELSE <<[a EXCEPT !.my_list = Nothing],
           [s EXCEPT !.pc = "idle", !.op = method, !.error = "None",
                     !.out = Some(res.value # Nothing), !.calls = @ + 1]>>

\* api.py, API.__x_from_list on the outcome res of its __api_request: the
\* pair <<api, session>>; the result is `res is not None`
x_from_list(a, s, method, res) ==
    IF ~res.ok THEN <<a, session_raise([s EXCEPT !.op = method], res.error)>>
    ELSE <<a, [s EXCEPT !.pc = "idle", !.op = method, !.error = "None",
                        !.out = Some(res.value # Nothing), !.calls = @ + 1]>>

\* the watchlist page the service holds after a PUT or DELETE of /me/watchlist
\* that it accepted
watchlist_after(w, method, item) ==
    IF w = Nothing THEN w
    ELSE IF method = "PUT"
    THEN IF Len(Get(w).items) >= 2
            \/ \E n \in 1..Len(Get(w).items) : Get(w).items[n] = item
         THEN w
         ELSE Some([Get(w) EXCEPT !.items = Append(@, item)])
    ELSE Some([Get(w) EXCEPT !.items =
                  SelectSeq(@, LAMBDA x : x.type # item.type \/ x.id # item.id)])

SessionEdited ==
    {CWVideo(1, TRUE, Nothing),
     Raw(FALSE, "series", 1, FALSE, "show", "ok", 0, Nothing),
     Raw(FALSE, "movie", 2, FALSE, "film", "ok", 0, Nothing)}

\* api.py lines 555-580: add_to_list (PUT) or remove_from_list (DELETE)
SessionEdit ==
    /\ session.pc \in {"idle", "raised"}
    /\ session.calls < MaxCalls
    /\ \E method \in {"PUT", "DELETE"}, item \in SessionEdited,
          accepted \in BOOLEAN :
        /\ LET r == x_from_list(api, session, method,
                                api_request(IF accepted THEN Some("ok")
                                            ELSE Nothing, debug))
           IN  /\ api' = r[1]
               /\ session' = r[2]
        /\ backend' = IF accepted
                      THEN [backend EXCEPT
                               !.watchlist = watchlist_after(@, method, item)]
                      ELSE backend
    /\ UNCHANGED <<store, settings, now, net, debug, parser, merge, pager,
                   listing, cw, request, playback,
                   player>>

NextSession ==
    \/ SessionCall
    \/ SessionEnsure
    \/ SessionScan
    \/ SessionMovie
    \/ SessionRequest
    \/ SessionEdit

SpecSession == InitSession /\ [][NextSession]_vars

(***************************************************************************)
(* One non-fast call of __parse_media on a list of raw items whose videos  *)
(* have play states in up to three places: embedded in the item, known to  *)
(* the play-state service, and in the local store.  Collection 2 backs the *)
(* movie 2 and holds the video 2.                                          *)
(***************************************************************************)
ReconcileRemote ==
    [completed : {FALSE}, duration : {60}, timecode : {30},
     timestamp : 0..MaxSeen]

ReconcileLocal ==
    [completed : {FALSE}, duration_s : {10}, timecode : {0},
     last_seen : 0..MaxSeen]

ReconcileItems ==
    {CWVideo(i, TRUE, ps) :
        i \in Ids, ps \in {Nothing} \cup {Some(r) : r \in ReconcileRemote}}
    \cup {CWVideo(1, FALSE, Nothing),
          Raw(FALSE, "movie", 2, FALSE, "film", "ok", 0, Nothing),
          Raw(FALSE, "series", 1, FALSE, "show", "ok", 0, Nothing)}

ReconcileLists ==
    {<<x>> : x \in ReconcileItems}
    \cup {<<x, y>> : x \in ReconcileItems, y \in ReconcileItems}

InitReconcile ==
    /\ settings = <<<<"a">>, <<"b">>>>
    /\ now = 0
    /\ api = ReadyAPI(Some({1}))
    /\ net = <<>>
    /\ debug = FALSE
    /\ merge = NoMerge
    /\ pager = NoPager
    /\ listing = NoListing
    /\ cw = NoCW
    /\ request = NoRequest
    /\ session = NoSession
    /\ player = NoPlayer
    /\ playback = NoPlayback
    /\ store \in {EmptyStore}
                 \cup {[EmptyStore EXCEPT
                           !.playstates = <<[key |-> ToString(i), value |-> d]>>] :
                          i \in Ids, d \in ReconcileLocal}
    /\ \E remote \in [Ids -> {Nothing} \cup {Some(r) : r \in ReconcileRemote}],
          ok \in BOOLEAN :
        backend =
            [NoBackend EXCEPT
                !.collections =
                    (2 :> Some(ComPage(<<CWVideo(2, TRUE, Nothing)>>, 1, 1))),
                !.remote = remote,
                !.play_state_ok = ok]
    /\ parser \in [pc : {"batch"}, items : ReconcileLists, fast : {FALSE},
                   out : {Nothing}]

SpecReconcile == InitReconcile /\ [][NextBatch]_vars

(***************************************************************************)
(* One status probe (api.py lines 294-307) on an API instance in any       *)
(* state, with the payload it reads.                                       *)
(***************************************************************************)
InitProbe ==
    /\ settings = <<<<"a">>, <<"b">>>>
    /\ now = 0
    /\ net = <<>>
    /\ debug = FALSE
    /\ backend = NoBackend
    /\ parser = NoParser
    /\ merge = NoMerge
    /\ pager = NoPager
    /\ listing = NoListing
    /\ cw = NoCW
    /\ session = NoSession
    /\ player = NoPlayer
    /\ playback = NoPlayback
    /\ \E token \in TokenInfos, jar \in SUBSET CookieNames,
          logged_in \in BOOLEAN, has_subscription \in BOOLEAN :
        /\ api = [NoAPI EXCEPT !.pc = "status1", !.credentials = settings,
                               !.token = token, !.cookies = jar,
                               !.logged_in = logged_in,
                               !.has_subscription = has_subscription]
        /\ store = [EmptyStore EXCEPT !.cookie_jar = jar]
    /\ request \in [pc : {"probe"}, sub_plan : SubPlans,
                    set_cookie : SUBSET CookieNames]

\* api.py, API.__update_status: the request, which stores the cookie jar, and
\* what follows the payload request.sub_plan
ProbeStatus ==
    /\ request.pc = "probe"
    /\ api' = [update_status([api EXCEPT !.cookies = @ \cup request.set_cookie],
                             request.sub_plan)
                  EXCEPT !.pc = "probed"]
    /\ store' = [store EXCEPT !.cookie_jar =
                    IF request.sub_plan = "null" THEN {}
                    ELSE api.cookies \cup request.set_cookie]
    /\ net' = Append(net, STATUS_URL)
    /\ request' = [request EXCEPT !.pc = "probed"]
    /\ UNCHANGED <<settings, now, debug, backend, parser, merge, pager, listing,
                   cw, playback, session,
                   player>>

NextProbe == ProbeStatus

SpecProbe == InitProbe /\ [][NextProbe]_vars

(***************************************************************************)
(* The player monitor of the service (player.py).  loop polls on the       *)
(* service's thread; onPlayBackStarted, onPlayBackPaused, onPlayBackStopped *)
(* and onPlayBackEnded are called by the player, one at a time, and the    *)
(* code holds no lock: a callback and the loop interleave between the      *)
(* statements of __update_play_state and of Config.set_playstate.          *)
(* player.current is what the player plays: nothing, or an item with or    *)
(* without the video id property.  player.ended holds the ids whose        *)
(* playback has ended and has not started again.  A thread is the loop or  *)
(* the callback; key and doc are the arguments and the document read by    *)
(* its set_playstate.                                                      *)
(***************************************************************************)
MaxPlays == 2      \* playbacks the player starts

Threads == {"loop", "cb"}

IdleThread ==
    [pc |-> "idle", kind |-> "none", completed |-> FALSE, key |-> Nothing,
     doc |-> <<>>, item |-> Nothing]

\* str(video_id) of config.py line 82
str(video_id) ==
    IF video_id = Nothing THEN "None" ELSE ToString(Get(video_id))

\* player.py lines 24-29 and config.py lines 75-80: the record written
playstate_data(completed, t) ==
    [completed |-> completed, duration_s |-> 10, timecode |-> 0,
     last_seen |-> t]

\* config.py line 82: current_playstate[str(video_id)] = playstate_data
set_playstate(doc, key, data) ==
    IF \E n \in 1..Len(doc) : doc[n].key = key
    THEN [n \in 1..Len(doc) |->
             IF doc[n].key = key THEN [key |-> key, value |-> data] ELSE doc[n]]
    ELSE Append(doc, [key |-> key, value |-> data])

\* where a thread goes when its __update_play_state returns
update_return(t) ==
    IF t.kind \in {"stopped", "ended"} THEN [t EXCEPT !.pc = "clear"]
    ELSE IdleThread

InitPlayer ==
    /\ store = EmptyStore
    /\ settings = <<<<"a">>, <<"b">>>>
    /\ now = 0
    /\ api = NoAPI
    /\ net = <<>>
    /\ debug = FALSE
    /\ backend = NoBackend
    /\ parser = NoParser
    /\ merge = NoMerge
    /\ pager = NoPager
    /\ listing = NoListing
    /\ cw = NoCW
    /\ request = NoRequest
    /\ playback = NoPlayback
    /\ session = NoSession
    /\ player = [pc |-> "running", playing |-> Nothing, current |-> Nothing,
                 plays |-> 0, ended |-> {},
                 threads |-> [t \in Threads |-> IdleThread]]

\* what no step of the player monitor changes
playerRest ==
    <<settings, now, api, net, debug, backend, parser, merge, pager, listing,
      cw, request, playback, session>>

\* player.py lines 34-41: the player starts an item and onPlayBackStarted
\* runs; video_id is the property of the item, absent or an id
PlayBackStarted ==
    /\ player.pc = "running"
    /\ player.threads["cb"].pc = "idle"
    /\ player.plays < MaxPlays
    /\ \E video_id \in {Nothing} \cup {Some(i) : i \in Ids} :
        player' = [player EXCEPT
                      !.current = Some(video_id),
                      !.plays = @ + 1,
                      !.ended = IF video_id = Nothing THEN @
                                ELSE @ \ {Get(video_id)},
                      !.playing = IF video_id = Nothing THEN @ ELSE video_id]
    /\ UNCHANGED <<store, playerRest>>

\* player.py lines 43-55: the player pauses, stops or ends what it plays and
\* calls onPlayBackPaused, onPlayBackStopped or onPlayBackEnded
PlayBackCallback ==
    /\ player.pc = "running"
    /\ player.threads["cb"].pc = "idle"
    /\ player.current # Nothing
    /\ \E kind \in {"paused", "stopped", "ended"} :
        player' = [player EXCEPT
                      !.current = IF kind = "paused" THEN @ ELSE Nothing,
                      !.threads["cb"] =
                          [IdleThread EXCEPT !.pc = "check", !.kind = kind,
                                             !.completed = (kind = "ended"),
                                             !.item = Get(player.current)]]
    /\ UNCHANGED <<store, playerRest>>

\* player.py lines 58-60: the loop finds self.playing set and calls
\* __update_play_state
LoopPoll ==
    /\ player.pc = "running"
    /\ player.threads["loop"].pc = "idle"
    /\ player.playing # Nothing
    /\ player' = [player EXCEPT !.threads["loop"] =
                     [IdleThread EXCEPT !.pc = "check", !.kind = "loop"]]
    /\ UNCHANGED <<store, playerRest>>

\* player.py lines 18-30: the test of self.playing, the position, the PlayState
UpdateCheck ==
    /\ player.pc = "running"
    /\ \E t \in Threads :
        /\ player.threads[t].pc = "check"
        /\ player' = [player EXCEPT !.threads[t] =
                         IF player.playing = Nothing
                         THEN update_return(@)
                         ELSE [@ EXCEPT !.pc = "call"]]
    /\ UNCHANGED <<store, playerRest>>

\* player.py line 31 and config.py line 81: self.playing is read again for
\* the call, and set_playstate reads the document
UpdateCall ==
    /\ player.pc = "running"
    /\ \E t \in Threads :
        /\ player.threads[t].pc = "call"
        /\ player' = [player EXCEPT !.threads[t] =
                         [@ EXCEPT !.pc = "write", !.key = player.playing,
                                   !.doc = store.playstates]]
    /\ UNCHANGED <<store, playerRest>>

\* config.py lines 82-83: the record is put in the document read and the
\* document is written
UpdateWrite ==
    /\ player.pc = "running"
    /\ \E t \in Threads :
        /\ player.threads[t].pc = "write"
        /\ store' = [store EXCEPT !.playstates =
                        set_playstate(player.threads[t].doc,
                                      str(player.threads[t].key),
                                      playstate_data(player.threads[t].completed,
                                                     now))]
        /\ player' = [player EXCEPT !.threads[t] = update_return(@)]
    /\ UNCHANGED playerRest

\* player.py lines 49 and 54: self.playing = None
PlayBackClear ==
    /\ player.pc = "running"
    /\ player.threads["cb"].pc = "clear"
    /\ player' = [player EXCEPT
                     !.playing = Nothing,
                     !.ended = IF player.threads["cb"].kind = "ended"
                                  /\ player.threads["cb"].item # Nothing
                               THEN @ \cup {Get(player.threads["cb"].item)}
                               ELSE @,
                     !.threads["cb"] = IdleThread]
    /\ UNCHANGED <<store, playerRest>>

NextPlayer ==
    \/ PlayBackStarted
    \/ PlayBackCallback
    \/ LoopPoll
    \/ UpdateCheck
    \/ UpdateCall
    \/ UpdateWrite
    \/ PlayBackClear

SpecPlayer == InitPlayer /\ [][NextPlayer]_vars

(***************************************************************************)
(* get_continue_watching in the plugin process while the player monitor    *)
(* of the service process writes playstate.json.                           *)
(***************************************************************************)
\* playstate.json when the call starts: video 1 was watched in part
RaceDoc ==
    <<[key |-> "1",
       value |-> [completed |-> FALSE, duration_s |-> 10, timecode |-> 0,
                  last_seen |-> 1]]>>

\* the remote page of /users/<id>/watching
RaceRemoteItems ==
    {<<>>, <<CWVideo(2, TRUE, Nothing)>>, <<CWVideo(1, TRUE, Nothing)>>}

InitRace ==
    /\ settings = <<<<"a">>, <<"b">>>>
    /\ now = 0
    /\ net = <<>>
    /\ debug = FALSE
    /\ parser = NoParser
    /\ merge = NoMerge
    /\ pager = NoPager
    /\ listing = NoListing
    /\ store = [EmptyStore EXCEPT !.playstates = RaceDoc]
    /\ api = ReadyAPI(Some({1}))
    /\ \E items \in RaceRemoteItems :
        backend =
            [NoBackend EXCEPT
                !.watching = Some(ComPage(items, Len(items), 1)),
                !.videos = [i \in Ids |-> Some(CWVideo(i, TRUE, Nothing))],
                !.remote = <<>>,
                !.play_state_ok = TRUE]
    /\ cw = [pc |-> "start", page |-> 1, remote |-> <<>>, items |-> <<>>,
             pending |-> <<>>, fetched |-> <<>>, next_page |-> Nothing,
             rpage |-> 0, out |-> Nothing]
    /\ request = NoRequest
    /\ session = NoSession
    /\ playback = NoPlayback
    /\ player = [pc |-> "running", playing |-> Nothing, current |-> Nothing,
                 plays |-> 0, ended |-> {},
                 threads |-> [t \in Threads |-> IdleThread]]

NextRace == NextCW \/ NextPlayer

SpecRace == InitRace /\ [][NextRace]_vars

(***************************************************************************)
(* Session establishment: the claims.                                      *)
(***************************************************************************)
\* the constructor is running or has just ended (no logout has started)
InConstruction ==
    api.pc \in {"status1", "token1", "login_form", "login_post", "status2",
                "token2", "ready", "init_raised"}

\* the record the constructor read matches the credentials and is younger
\* than five minutes
ReadFreshRecord ==
    /\ api.creds # Nothing
    /\ Get(api.creds).hash = <<"md5", api.credentials[1] \o api.credentials[2]>>
    /\ api.init_now - Get(api.creds).when < CACHE_MINUTES

\* the record the constructor read mismatches or is five minutes old or more
ReadStaleRecord ==
    /\ api.creds # Nothing
    /\ \/ Get(api.creds).hash # <<"md5", api.credentials[1] \o api.credentials[2]>>
       \/ api.init_now - Get(api.creds).when >= CACHE_MINUTES

\* C3: a construction that reads a Credentials record whose hash is the digest
\* of username+password and whose age is under 5 minutes takes the cached token
\* and user id, sets both flags, issues no website request, and leaves the
\* record in the store.
C3_CacheReuse ==
    (InConstruction /\ ReadFreshRecord) =>
        /\ api.pc = "ready"
        /\ api.token = Get(api.creds).token
        /\ api.user_id = Get(api.creds).user_id
        /\ api.logged_in
        /\ api.has_subscription
        /\ net = <<>>
        /\ store.credentials = api.creds

C3_Witness ==
    /\ api.pc = "ready"
    /\ ReadFreshRecord
    /\ api.init_now - Get(api.creds).when = CACHE_MINUTES - 1

\* C4: a construction that reads a mismatching or expired Credentials record
\* never reuses it: the record is gone from the store, the first request is the
\* status probe, the login flags are set only after it, and a token is held
\* only after a home-page scrape.
C4_StaleRecordDiscarded ==
    (InConstruction /\ ReadStaleRecord) =>
        /\ store.credentials # api.creds
        /\ (api.logged_in \/ api.has_subscription \/ api.pc = "ready") =>
               (Len(net) >= 1 /\ net[1] = STATUS_URL)
        /\ api.token # None => \E i \in 1..Len(net) : net[i] = HOME_URL

C4_Witness ==
    /\ api.pc = "ready"
    /\ api.creds # Nothing
    /\ Get(api.creds).hash = <<"md5", api.credentials[1] \o api.credentials[2]>>
    /\ api.init_now - Get(api.creds).when >= CACHE_MINUTES
    /\ api.logged_in
    /\ api.token # None

\* C9: after a construction that ends logged in (with a subscription) through
\* a fresh path, the store holds a Credentials record with the digest of the
\* current username+password and the time of this construction, whether the
\* store was empty before or held a record that was discarded.
C9_FreshLoginCached ==
    (/\ api.pc = "ready"
     /\ net # <<>>
     /\ api.logged_in
     /\ api.has_subscription
     /\ api.token # None
     /\ api.user_id # None) =>
        /\ store.credentials # Nothing
        /\ Get(store.credentials).hash =
               <<"md5", api.credentials[1] \o api.credentials[2]>>
        /\ Get(store.credentials).when >= api.init_now
        /\ Get(store.credentials).when <= now

\* C10: after logout() returns the flags are false, the token is cleared, the
\* cookie jar is empty in memory and in the store, and no Credentials record
\* remains in the store.
C10_LogoutClearsEverything ==
    api.pc = "logout_returned" =>
        /\ ~api.logged_in
        /\ ~api.has_subscription
        /\ api.token = None
        /\ api.cookies = {}
        /\ store.cookie_jar = {}
        /\ store.credentials = Nothing

(***************************************************************************)
(* The media normaliser: the claims.                                       *)
(***************************************************************************)
\* C7: dispatch on the type discriminator.  A well-formed item of type "video"
\* parses to an UnreleasedVideo without a metadata key and to a ReleasedVideo
\* with one; a well-formed item without a type parses to a Collection unless
\* its slug is reserved, and then parsing fails; an item of a type other than
\* video, movie, season, series fails with a parse error (ValueError).
C7_Dispatch ==
    parser.pc = "done" =>
        LET item == parser.item
            out == parser.out
        IN  /\ (item.type = "video" /\ ~item.has_metadata /\ item.fields = "ok") =>
                   (out.ok /\ out.value[1].kind = "UnreleasedVideo")
            /\ (item.type = "video" /\ item.has_metadata /\ item.fields = "ok") =>
                   (out.ok /\ out.value[1].kind = "ReleasedVideo")
            /\ (/\ item.type = None
                /\ item.fields = "ok"
                /\ item.slug \notin {"featured", "continue-watching", "my-list",
                                     "new-releases", "trending", "all-series"}) =>
                   (out.ok /\ out.value[1].kind = "Collection")
            /\ (/\ item.type = None
                /\ item.slug \in {"featured", "continue-watching", "my-list",
                                  "new-releases", "trending", "all-series"}) =>
                   ~out.ok
            /\ item.type \notin {"video", "movie", "season", "series", None} =>
                   (~out.ok /\ out.error = "ValueError")

C7_Witness ==
    /\ parser.pc = "done"
    /\ parser.item.type = None
    /\ parser.item.slug = "all-series"
    /\ parser.item.fields = "ok"
    /\ ~parser.out.ok

\* C1: the Movie is built from the released video of page 1 of the backing
\* collection with the smallest duration, the first one on equal durations.
C1_MovieFromShortestReleased ==
    (parser.pc = "done" /\ parser.item.type = "movie" /\ parser.out.ok) =>
        LET page == Get(backend.collections[parser.item.id]).items
            Released == {i \in 1..Len(page) :
                            /\ page[i].type = "video"
                            /\ page[i].has_metadata
                            /\ page[i].fields = "ok"}
            Best(i) == \A j \in Released :
                          \/ page[i].duration < page[j].duration
                          \/ page[i].duration = page[j].duration /\ i <= j
        IN  \E i \in Released :
                /\ Best(i)
                /\ parser.out.value[1].entity_id = page[i].id
                /\ parser.out.value[1].duration_s = page[i].duration

(***************************************************************************)
(* The play-state merge: the claims.                                       *)
(***************************************************************************)
\* C2 as stated: merging A then B yields the same play state as merging B
\* then A, and merging A with A yields A.
C2_OrderIndependent ==
    merge.pc = "done" =>
        /\ merge.ab = merge.ba
        /\ merge.aa = Some(merge.a)

\* C2 as amended: both orders yield the same last_seen; they yield the same
\* play state when the two last_seen differ or A = B; on equal last_seen each
\* order keeps the state merged first; merging A with A yields A.
C2_OrderIndependentOnLastSeen ==
    merge.pc = "done" =>
        /\ Get(merge.ab).last_seen = Get(merge.ba).last_seen
        /\ (merge.a.last_seen # merge.b.last_seen \/ merge.a = merge.b) =>
               merge.ab = merge.ba
        /\ merge.a.last_seen = merge.b.last_seen =>
               (merge.ab = Some(merge.a) /\ merge.ba = Some(merge.b))
        /\ merge.aa = Some(merge.a)

C2_Witness ==
    /\ merge.pc = "done"
    /\ merge.a.last_seen < merge.b.last_seen
    /\ merge.a.completed # merge.b.completed
    /\ merge.ab = Some(merge.b)
    /\ merge.ba = Some(merge.b)

(***************************************************************************)
(* Pagination: the claims.                                                 *)
(***************************************************************************)
\* C5: the collector always terminates, also when the backend answers every
\* request with the same static fixture response.
C5_CollectorTerminates ==
    backend.static => <>(pager.pc \in {"done", "raised", "cut"})

\* C6: next_page is None exactly when the backend reports no further page: in
\* the counter dialect it is set exactly when count > page * per_page, in the
\* hypermedia dialect exactly when _links.next.href is present; a failed
\* request yields an empty page with next_page None.
C6_NextPageIffMore ==
    listing.pc = "done" =>
        LET page == listing.out.value
        IN  /\ listing.out.ok
            /\ listing.answer = Nothing =>
                   (page.items = <<>> /\ page.next_page = Nothing)
            /\ (listing.answer # Nothing /\ ~listing.use_tv) =>
                   (page.next_page # Nothing <=>
                       Get(listing.answer).pagination.count >
                           Get(listing.answer).pagination.page
                               * Get(listing.answer).pagination.per_page)
            /\ (listing.answer # Nothing /\ listing.use_tv) =>
                   (page.next_page # Nothing <=> Get(listing.answer).next # Nothing)

(***************************************************************************)
(* Continue watching: the claims.                                          *)
(***************************************************************************)
\* the video ids with a non-completed record in playstate.json
LocalInProgress ==
    {i \in Ids : \E n \in 1..Len(store.playstates) :
        /\ store.playstates[n].key = ToString(i)
        /\ ~store.playstates[n].value.completed}

\* the ids of the videos of the remote continue-watching result
RemoteVideoIds ==
    {cw.remote[n].entity_id : n \in {m \in 1..Len(cw.remote) :
        cw.remote[m].kind \in {"UnreleasedVideo", "ReleasedVideo", "Movie"}}}

\* C8: get_continue_watching(page=1) returns every video id that has a
\* non-completed local record and is absent from the remote result, after an
\* individual fetch of that video; for page > 1 nothing is fetched and every
\* returned item is an item of the remote page.
C8_LocalInjection ==
    cw.pc = "returned" =>
        LET out == Get(cw.out).items
        IN  IF cw.page = 1
            THEN \A id \in LocalInProgress \ RemoteVideoIds :
                    /\ \E n \in 1..Len(out) : out[n].entity_id = id
                    /\ \E n \in 1..Len(cw.fetched) : cw.fetched[n] = id
            ELSE /\ cw.fetched = <<>>
                 /\ \A n \in 1..Len(out) :
                        \E m \in 1..Len(cw.remote) : out[n] = cw.remote[m]

\* a local in-progress id the remote result does not hold was fetched and
\* returned
C8_Witness ==
    /\ cw.pc = "returned"
    /\ cw.page = 1
    /\ cw.remote = <<>>
    /\ LocalInProgress # {}
    /\ \A id \in LocalInProgress :
          \E n \in 1..Len(Get(cw.out).items) : Get(cw.out).items[n].entity_id = id

(***************************************************************************)
(* Batch parsing: the claims.                                              *)
(***************************************************************************)
\* the parsed forms of the items whose own parse succeeds, in their order
RECURSIVE ParsedForms(_)
ParsedForms(items) ==
    IF items = <<>> THEN <<>>
    ELSE LET front == ParsedForms(SubSeq(items, 1, Len(items) - 1))
             r == parse_medium(items[Len(items)], Context, FALSE, MaxDepth)
         IN  IF r.ok THEN Append(front, r.value[1]) ELSE front

\* C11: __parse_media never aborts on a per-item failure: whatever the reason
\* an item fails to parse, it is skipped and the result is exactly the parsed
\* forms of the other items in their original relative order.
C11_BatchNeverAborts ==
    parser.pc = "batch_done" =>
        /\ parser.out.ok
        /\ parser.out.value = ParsedForms(parser.items)

(***************************************************************************)
(* Session establishment: scrape failures and the constructor's asserts.   *)
(***************************************************************************)
\* C12: every structural scrape failure during session establishment raises:
\* a home page without the token field or without the user id field, and a
\* login form without the CSRF token input, end the operation with an error
\* instead of letting it go on or complete with a missing token or user id.
C12_ScrapeFailureRaises ==
    [][/\ (/\ api.pc \in {"token1", "token2"}
           /\ (api'.token = None \/ api'.user_id = None))
          => api'.pc = "init_raised"
       /\ (api.pc = "login_form" /\ api'.pc # "login_post")
          => api'.pc = "init_raised"]_vars

\* C13: after construction completes, logged_in and has_subscription both true
\* imply that the token and the user id are set, and no step of the
\* construction ends in a failed assert of the constructor (the only raise
\* after a status probe, a home-page scrape or a login POST).
C13_TokenSetWhenSubscribed ==
    /\ [](api.pc = "ready" /\ api.logged_in /\ api.has_subscription
            => api.token # None /\ api.user_id # None)
    /\ [][api.pc \in {"status1", "status2", "token1", "token2", "login_post"}
            => api'.pc # "init_raised"]_vars

(***************************************************************************)
(* The generic API request: the claims.                                    *)
(***************************************************************************)
\* a non-success status: None and an untouched caller with debug mode off, a
\* ValueError with debug mode on
NonSuccessOutcome ==
    request.res.status >= 400 =>
        /\ ~debug => request.out = [ok |-> TRUE, value |-> <<>>, error |-> "None"]
        /\ debug => (~request.out.ok /\ request.out.error = "ValueError")
        /\ api = ReadyAPI(Nothing) /\ store = EmptyStore

\* C14 as stated: a non-success status gives None with debug mode off and
\* raises with debug mode on; a success status returns the decoded JSON, an
\* empty object for status 204, and never None.
C14_RequestOutcome ==
    request.pc = "done" =>
        /\ NonSuccessOutcome
        /\ request.res.status < 400 =>
              /\ request.out.ok
              /\ request.out.value # <<>>
              /\ request.res.status = 204 => request.out.value = <<<<>>>>

\* C14 as amended: as above for a non-success status and for status 204; any
\* other success status returns the JSON object of the body when the body is
\* one, returns None when the body is the JSON null, and raises when the body
\* is not JSON.
C14_RequestOutcomeByBody ==
    request.pc = "done" =>
        /\ NonSuccessOutcome
        /\ request.res.status = 204 =>
              request.out = [ok |-> TRUE, value |-> <<<<>>>>, error |-> "None"]
        /\ (request.res.status < 400 /\ request.res.status # 204) =>
              /\ request.res.body \in {"object", "empty_object"} =>
                    (request.out.ok /\ request.out.value # <<>>)
              /\ request.res.body = "empty_object" =>
                    request.out.value = <<<<>>>>
              /\ request.res.body = "null" =>
                    (request.out.ok /\ request.out.value = <<>>)
              /\ request.res.body = "invalid" => ~request.out.ok

\* a non-success status met debug mode and raised
C14_Witness ==
    /\ request.pc = "done"
    /\ request.res.status = 404
    /\ debug
    /\ ~request.out.ok

(***************************************************************************)
(* The cookie jar: the claims.                                             *)
(***************************************************************************)
\* C15: while a session exists, after every website request has returned the
\* cookie jar of the persistent store equals the session's in-memory cookies,
\* and both are empty after logout has cleared the auth data.
C15_CookieJarPersisted ==
    api.pc # "none" =>
        /\ store.cookie_jar = api.cookies
        /\ api.pc \in {"logout_returned", "done"} => api.cookies = {}

\* a session that has made requests and received a cookie, persisted
C15_Witness ==
    /\ api.pc = "ready"
    /\ Len(net) >= 2
    /\ api.cookies = {"_session"}
    /\ store.cookie_jar = {"_session"}

(***************************************************************************)
(* The recent searches: the claims.                                        *)
(***************************************************************************)
\* C16: the recent-searches list is de-duplicated by term: no two entries have
\* the same term, and adding a term already present leaves the list unchanged
\* (a step never lengthens a list that already holds every term it holds
\* afterwards).
C16_SearchesDeduplicated ==
    /\ [](\A i, j \in 1..Len(store.searches) :
            store.searches[i].search = store.searches[j].search => i = j)
    /\ [][(/\ Len(store.searches') >= Len(store.searches)
           /\ \A n \in 1..Len(store.searches') :
                 \E m \in 1..Len(store.searches) :
                     store.searches[m].search = store.searches'[n].search)
          => store.searches' = store.searches]_vars

\* the entries of a list whose term is not the given one, in their order
RECURSIVE WithoutTerm(_, _)
WithoutTerm(list, search) ==
    IF list = <<>> THEN <<>>
    ELSE IF Head(list).search = search THEN WithoutTerm(Tail(list), search)
    ELSE <<Head(list)>> \o WithoutTerm(Tail(list), search)

\* C17: the list never holds more than 15 entries; every step either appends
\* one entry at the end (evicting the oldest entry when the list was full) or
\* removes every entry of one term and leaves the others in order.
C17_SearchesCappedInOrder ==
    /\ [](Len(store.searches) <= 15)
    /\ [][\E search \in {"cats", "dogs"} :
            \/ /\ Len(store.searches) < 15
               /\ Len(store.searches') = Len(store.searches) + 1
               /\ SubSeq(store.searches', 1, Len(store.searches)) = store.searches
               /\ store.searches'[Len(store.searches')].search = search
            \/ /\ Len(store.searches) = 15
               /\ Len(store.searches') = 15
               /\ SubSeq(store.searches', 1, 14) = SubSeq(store.searches, 2, 15)
               /\ store.searches'[15].search = search
            \/ store.searches' = WithoutTerm(store.searches, search)]_vars

\* a full list in which both terms occur
C17_Witness ==
    /\ Len(store.searches) = 15
    /\ store.searches[1].search = "dogs"
    /\ store.searches[15].search = "cats"

(***************************************************************************)
(* Playback resolution: the claims.                                        *)
(***************************************************************************)
\* the resolution got as far as the format selection: the configuration was
\* fetched, the video found and it is a released one
ReachedFormats ==
    /\ playback.pc = "done"
    /\ playback.config.ok
    /\ \/ /\ playback.video_res # <<>>
          /\ playback.video_res[1].has_metadata
       \/ /\ playback.video_res = <<>>
          /\ backend.videos[1] # <<>>
          /\ backend.videos[1][1].has_metadata

\* C18: hls is the format used whenever the configuration offers it (the
\* result, when one is returned, is the hls stream and the only failure left is
\* that of the CDN selection), dash is never used, also when it is the only
\* format offered, and without hls the operation fails and returns no VideoData.
C18_FormatSelection ==
    ReachedFormats =>
        /\ playback.out.ok =>
              /\ playback.config.value.hls # <<>>
              /\ playback.out.value.data.mime_type = "application/vnd.apple.mpegurl"
              /\ playback.out.value.data.url[1] = "hls"
        /\ playback.config.value.hls = <<>> => ~playback.out.ok
        /\ (/\ playback.config.value.hls # <<>>
            /\ playback.config.value.hls[1].cdns # <<>>) => playback.out.ok

\* dash and hls were both offered and the hls stream was returned
C18_Witness ==
    /\ ReachedFormats
    /\ playback.config.value.dash # <<>>
    /\ playback.config.value.hls # <<>>
    /\ playback.out.ok
    /\ playback.out.value.data.url[1] = "hls"

\* C19: the CDN entry used is that of the format's declared default CDN when
\* that key is in the CDN map, otherwise that of the first key of the map in
\* map order; an empty or absent CDN map is an error.
C19_CdnSelection ==
    (ReachedFormats /\ playback.config.value.hls # <<>>) =>
        LET fmt == playback.config.value.hls[1]
        IN  IF fmt.cdns = <<>> THEN ~playback.out.ok
            ELSE /\ playback.out.ok
                 /\ playback.out.value.data.url[2] =
                       IF \E n \in 1..Len(fmt.cdns) :
                              fmt.cdns[n].key = fmt.default_cdn
                       THEN fmt.default_cdn
                       ELSE fmt.cdns[1].key

\* the declared default is the second key of the map and its entry was used
C19_Witness ==
    /\ ReachedFormats
    /\ playback.config.value.hls # <<>>
    /\ Len(playback.config.value.hls[1].cdns) = 2
    /\ playback.config.value.hls[1].cdns[2].key = "fastly"
    /\ playback.config.value.hls[1].default_cdn = "fastly"
    /\ playback.out.ok
    /\ playback.out.value.data.url = <<"hls", "fastly">>

(***************************************************************************)
(* Movie resolution: when it fails.                                        *)
(***************************************************************************)
\* C20: the resolution of a well-formed movie whose backing collection was
\* fetched fails exactly when page 1 of the collection holds no released
\* video: one released video among the items, in any position, is enough for a
\* Movie to be produced.
C20_MovieFailsIffNoReleased ==
    (/\ parser.pc = "done"
     /\ parser.item.type = "movie"
     /\ parser.item.fields = "ok"
     /\ backend.collections[parser.item.id] # <<>>) =>
        LET page == backend.collections[parser.item.id][1].items
        IN  parser.out.ok <=>
                \E i \in 1..Len(page) :
                    /\ page[i].type = "video"
                    /\ page[i].has_metadata
                    /\ page[i].fields = "ok"

(***************************************************************************)
(* The watchlist id set: the claims.                                       *)
(***************************************************************************)
\* C21: over any sequence of listing operations on one API instance the
\* watchlist is collected with success at most once, and an operation only
\* requests its own page once the watchlist id set is there.
C21_WatchlistBuiltOnce ==
    /\ session.pc # "none" => session.paginated <= 1
    /\ session.pc = "request" => api.my_list # Nothing

\* C22: once the watchlist id set is built, every entity a listing operation
\* other than get_my_list returns (here get_continue_watching) has is_in_list
\* true exactly when its entity id is in the cached set.
C22_InListIffMember ==
    (cw.pc = "returned" /\ api.my_list # Nothing) =>
        \A i \in 1..Len(Get(cw.out).items) :
            Get(cw.out).items[i].is_in_list
                <=> Get(cw.out).items[i].entity_id \in Get(api.my_list)

(***************************************************************************)
(* Continue watching: the fetch of a locally tracked video.                *)
(***************************************************************************)
\* C23: with debug mode off, a get_continue_watching(page=1) in which the
\* fetch of a locally tracked video got a non-success response does not
\* abort: it goes on to return a list.
C23_FailedFetchRecoverable ==
    (/\ ~debug
     /\ cw.pc # "none"
     /\ cw.page = 1
     /\ \E n \in 1..Len(cw.fetched) : backend.videos[cw.fetched[n]] = Nothing)
        => cw.pc # "raised"

(***************************************************************************)
(* The play-state merge rule: the claims.                                  *)
(***************************************************************************)
\* C24: merged into an absent current state, the parsed state is the result;
\* merged into a present one, the parsed state replaces it exactly when its
\* last_seen is strictly greater (a tie keeps the current state); the result
\* is one of the two states, whole, and carries the greater last_seen.
C24_MergeRule ==
    /\ merge.pc = "second" => merge.ab = Some(merge.a) /\ merge.ba = Some(merge.b)
    /\ merge.pc = "done" =>
          /\ merge.ab = Some(IF merge.b.last_seen > merge.a.last_seen
                             THEN merge.b ELSE merge.a)
          /\ merge.ba = Some(IF merge.a.last_seen > merge.b.last_seen
                             THEN merge.a ELSE merge.b)
          /\ Get(merge.ab) \in {merge.a, merge.b}
          /\ Get(merge.ab).last_seen >= merge.a.last_seen
          /\ Get(merge.ab).last_seen >= merge.b.last_seen

\* C24 (witness): two different states with equal last_seen were merged and
\* the first-assigned one was kept
C24_Witness ==
    /\ merge.pc = "done"
    /\ merge.a # merge.b
    /\ merge.a.last_seen = merge.b.last_seen
    /\ merge.ab = Some(merge.a)

(***************************************************************************)
(* Play-state reconciliation in a batch: the claims.                       *)
(***************************************************************************)
\* the play states on record for the video id, raw being the item it was
\* parsed from: the local record, and the remote one (embedded in the item
\* if present, otherwise the entry of the play-state service)
Candidates(raw, id) ==
    (IF get_playstate(store.playstates, id) = Nothing THEN {}
     ELSE {Get(get_playstate(store.playstates, id))})
    \cup (IF raw.type = "video" /\ raw.play_state # Nothing
          THEN {parse_play_state(Get(raw.play_state))}
          ELSE IF backend.remote[id] = Nothing THEN {}
          ELSE {parse_play_state(Get(backend.remote[id]))})

\* C25: after a non-fast batch parse in which every item was parsed and the
\* play-state query was answered, the play state of every released video or
\* movie of the result is one of its candidates with the greatest last_seen,
\* and is absent only when it has no candidate.
C25_BatchPlayStates ==
    (/\ parser.pc = "batch_done"
     /\ ~parser.fast
     /\ backend.play_state_ok
     /\ parser.out.ok
     /\ Len(parser.out.value) = Len(parser.items)) =>
        \A i \in 1..Len(parser.items) :
            IsReleasedVideo(parser.out.value[i]) =>
                LET m == parser.out.value[i]
                    cands == Candidates(parser.items[i], m.entity_id)
                IN  IF cands = {} THEN m.play_state = Nothing
                    ELSE /\ m.play_state # Nothing
                         /\ Get(m.play_state) \in cands
                         /\ \A c \in cands :
                                Get(m.play_state).last_seen >= c.last_seen

(***************************************************************************)
(* Continue watching: what is dropped and the order.                       *)
(***************************************************************************)
\* a released video whose play state is completed and comes from the local
\* store
CompletedLocally(i) ==
    /\ IsReleasedVideo(i)
    /\ i.play_state # Nothing
    /\ Get(i.play_state).completed
    /\ Get(i.play_state).from_us

\* C26: the list get_continue_watching returns, for any page, holds no released
\* video whose play state is completed and local, and holds every other entry
\* of the parsed remote page.
C26_CompletedLocalDropped ==
    cw.pc = "returned" =>
        /\ \A n \in 1..Len(Get(cw.out).items) :
               ~CompletedLocally(Get(cw.out).items[n])
        /\ \A m \in 1..Len(cw.remote) :
               ~CompletedLocally(cw.remote[m]) =>
                   \E n \in 1..Len(Get(cw.out).items) :
                       Get(cw.out).items[n] = cw.remote[m]

\* C26 (witness): a call returned whose remote page held a video completed
\* locally
C26_Witness ==
    /\ cw.pc = "returned"
    /\ \E m \in 1..Len(cw.remote) : CompletedLocally(cw.remote[m])

\* C27: the list get_continue_watching(page=1) returns is ordered by play-state
\* last_seen, latest first, and every entity without a play state comes after
\* every entity that has one.
C27_SortedByLastSeen ==
    (cw.pc = "returned" /\ cw.page = 1) =>
        \A i \in 1..Len(Get(cw.out).items), j \in 1..Len(Get(cw.out).items) :
            i < j =>
                LET x == Get(cw.out).items[i]
                    y == Get(cw.out).items[j]
                IN  /\ y.play_state # Nothing => x.play_state # Nothing
                    /\ (x.play_state # Nothing /\ y.play_state # Nothing) =>
                           Get(x.play_state).last_seen >= Get(y.play_state).last_seen

\* C27 (witness): the returned list differs from the order the items were
\* collected in
C27_Witness ==
    /\ cw.pc = "returned"
    /\ cw.page = 1
    /\ Len(cw.items) >= 2
    /\ Get(cw.out).items # cw.items

(***************************************************************************)
(* Construction: the order of the authentication steps.                    *)
(***************************************************************************)
\* C28: during construction the login form is fetched and the login POST is
\* sent only after the status probe has failed (logged_in is false) and with a
\* non-empty username and password; with an empty username or password neither
\* request is ever made; and after a login POST that succeeded the next
\* request is the status probe.
C28_LoginStepsOrder ==
    /\ [](api.pc \in {"login_form", "login_post"} =>
              /\ ~api.logged_in
              /\ api.credentials[1] # <<>>
              /\ api.credentials[2] # <<>>)
    /\ []((api.pc # "none"
           /\ (api.credentials[1] = <<>> \/ api.credentials[2] = <<>>)) =>
              \A n \in 1..Len(net) : net[n] \notin {LOGIN_FORM_URL, LOGIN_URL})
    /\ [][(api.pc = "status2" /\ net' # net) =>
              net' = Append(net, STATUS_URL)]_vars

(***************************************************************************)
(* The status probe: the claims.                                           *)
(***************************************************************************)
\* C29: after a status probe logged_in is true exactly when the plan payload
\* is non-null, has_subscription is true exactly when the payload holds a
\* current plan whose expiry flag is present and false, and after a null
\* payload the token is None and the cookie jar is empty in memory and in the
\* store.
C29_StatusProbe ==
    request.pc = "probed" =>
        /\ api.logged_in <=> request.sub_plan # "null"
        /\ api.has_subscription <=> request.sub_plan = "active"
        /\ request.sub_plan = "null" =>
              /\ api.token = None
              /\ api.cookies = {}
              /\ store.cookie_jar = {}

\* C29 (witness): a null payload came with a response that set a cookie, and
\* the instance is left without token and without cookies
C29_Witness ==
    /\ request.pc = "probed"
    /\ request.sub_plan = "null"
    /\ request.set_cookie # {}
    /\ api.token = None
    /\ api.cookies = {}

(***************************************************************************)
(* Playback resolution: the subtitles.                                     *)
(***************************************************************************)
\* C30: the resolved VideoData holds, for each subtitle track of the video, at
\* most one URL: the vtt link when the track has one, otherwise the srt link,
\* and none when the track has neither.
C30_SubtitlePreference ==
    (playback.pc = "done" /\ playback.out.ok) =>
        \A n \in 1..Len(playback.tracks) :
            LET urls == {k \in 1..Len(playback.out.value.data.subtitles) :
                            playback.out.value.data.subtitles[k][1] = n}
            IN  /\ Cardinality(urls) <= 1
                /\ \A k \in urls :
                       playback.out.value.data.subtitles[k][2] =
                           IF "vtt" \in playback.tracks[n] THEN "vtt" ELSE "srt"
                /\ (urls = {}) <=> (playback.tracks[n] = {})

(***************************************************************************)
(* The watchlist id set and the edits of the watchlist.                    *)
(***************************************************************************)
\* C31: add_to_list and remove_from_list, accepted or refused by the service,
\* leave the cached watchlist id set as it is and request no watchlist page;
\* a listing returned later by the same instance is annotated from the cached
\* set.
C31_EditKeepsCachedSet ==
    /\ [][(session'.pc \in {"idle", "raised"}
           /\ session'.op \in {"PUT", "DELETE"}
           /\ session'.calls = session.calls + 1) =>
              /\ api'.my_list = api.my_list
              /\ session'.paginated = session.paginated]_vars
    /\ []((session.pc = "idle" /\ session.op \in SessionOps
           /\ api.my_list # Nothing) =>
              \A n \in 1..Len(Get(session.out).items) :
                  Get(session.out).items[n].is_in_list
                      <=> Get(session.out).items[n].entity_id \in Get(api.my_list))

\* C31 (witness): the service accepted an edit after the set was built, the
\* watchlist it holds no longer has the ids of the cached set, and a listing
\* returned after that carries an item annotated from the cached set
C31_Witness ==
    /\ session.pc = "idle"
    /\ session.op \in SessionOps
    /\ session.calls = 3
    /\ api.my_list = Some({1})
    /\ backend.watchlist # Nothing
    /\ Get(backend.watchlist).items = <<>>
    /\ \E n \in 1..Len(Get(session.out).items) :
          /\ Get(session.out).items[n].entity_id = 1
          /\ Get(session.out).items[n].is_in_list

C34_NoWriteWithoutVideoId ==
    [][(player.current = Some(Nothing) /\ player'.current = Some(Nothing)) =>
          store'.playstates = store.playstates]_vars

\* C35: the list get_continue_watching(page=1) returns while the player
\* monitor writes playstate.json holds no released video whose play state is
\* completed and comes from the local store.
C35_NoCompletedLocalUnderWrites ==
    (cw.pc = "returned" /\ cw.page = 1 /\ player.pc = "running") =>
        \A n \in 1..Len(Get(cw.out).items) :
            ~CompletedLocally(Get(cw.out).items[n])

\* C36: the resolution of a movie item ends without exhausting the
\* interpreter's recursion limit, whatever page 1 of the collections holds.
C36_MovieResolutionBounded ==
    parser.pc = "done" =>
        ~(~parser.out.ok /\ parser.out.error = "RecursionError")

\* no two videos of a list have the same id
DistinctVideoIds(items) ==
    \A i \in 1..Len(items), j \in 1..Len(items) :
        (i < j /\ IsVideo(items[i]) /\ IsVideo(items[j])) =>
            items[i].entity_id # items[j].entity_id

\* C37: when the parsed remote page holds no video id twice, the list
\* get_continue_watching(page=1) returns holds no video id twice.
C37_NoDuplicateIds ==
    (cw.pc = "returned" /\ cw.page = 1 /\ DistinctVideoIds(cw.remote)) =>
        DistinctVideoIds(Get(cw.out).items)

\* C37 (witness): a call for page 1 returned a list that holds a video of
\* the remote page of which the local store has a record that is not
\* completed
C37_Witness ==
    /\ cw.pc = "returned"
    /\ cw.page = 1
    /\ DistinctVideoIds(cw.remote)
    /\ \E m \in 1..Len(cw.remote), n \in 1..Len(store.playstates) :
           /\ IsVideo(cw.remote[m])
           /\ store.playstates[n].key = ToString(cw.remote[m].entity_id)
           /\ ~store.playstates[n].value.completed
           /\ \E k \in 1..Len(Get(cw.out).items) :
                  Get(cw.out).items[k] = cw.remote[m]

\* C38: a page request of the collector that fails ends the collector: with
\* debug off it returns the items collected so far, unchanged, and with debug
\* on it raises; a page request that succeeds puts the items of the page
\* after the ones collected so far.
C38_FailedPageEndsCollector ==
    [][pager.pc = "parse" =>
          IF pager.res = Nothing
          THEN IF debug THEN pager'.pc = "raised"
               ELSE pager'.pc = "done" /\ pager'.items = pager.items
          ELSE pager'.items = pager.items \o Get(pager.res).items]_vars

\* C38 (witness): with debug off the collector returned the items of a first
\* page after the request of a later page failed
C38_Witness ==
    /\ pager.pc = "done"
    /\ pager.res = Nothing
    /\ ~debug
    /\ pager.items # <<>>

====
